---- MODULE Spec2Model ----
(***************************************************************************)
(* File integrity analyzer: the classification engine of script.py         *)
(* (FileIntegrityChecker) and the filtered scanner of                      *)
(* verificador_interativo.py (CustomFileChecker).                          *)
(*                                                                         *)
(* Python dicts are functions whose DOMAIN is the set of keys present, so  *)
(* that  'error' in d  is  "error" \in DOMAIN d.                           *)
(***************************************************************************)
EXTENDS Integers, Sequences, FiniteSets, TLC

VARIABLES
    cls,                        \* which class runs the scan
    directories,                \* self.directories
    recursive,                  \* CustomFileChecker.recursive
    file_types,                 \* CustomFileChecker.file_types
    auto_install_excel,         \* self.auto_install_excel
    results,                    \* self.results
    summary,                    \* self.summary
    excel_enhancement_checked,  \* self.excel_enhancement_checked
    pandas_available,           \* environment: pandas and openpyxl importable
    fs,                         \* environment: what each path of the tree holds
    dir_index,                  \* position of  for directory in self.directories
    pending,                    \* files the running walk/listdir still yields
    pc,                         \* "main" | "scan" | "walk" | "done" | "exited"
    discovered,                 \* history: files yielded so far that pass the filters
    calls,                      \* history: one entry per check_file_integrity call
    probe_runs,                 \* history: executions of the capability check
    doc,                        \* environment: the file whose bytes are validated
                                \* (None in the scans that look at no bytes)
    argv,                       \* args.directories of script.py main (empty when
                                \* the checker is not run by main)
    exit_status,                \* what the process exits with: 0 unless sys.exit
                                \* is called with another status
    report,                     \* the report files written after the scan
    previous                    \* history: the calls and the records of the
                                \* earlier runs over fs

vars == << cls, directories, recursive, file_types, auto_install_excel, results,
           summary, excel_enhancement_checked, pandas_available, fs, dir_index,
           pending, pc, discovered, calls, probe_runs, doc, argv, exit_status,
           report, previous >>

\* ---------------------------------------------------------------- bounds
MaxDirs == 2

\* characters of a CSV document before and after its filler
MaxLead == 2

MaxTrail == 1

\* runs of the tool over the same tree
MaxRuns == 2

\* ------------------------------------------------------------- dict help
None == "None"

Put(d, k, v) == (k :> v) @@ d

Has(d, k) == k \in DOMAIN d

\* ------------------------------------------------------ the scanned tree
\* top/ can hold a.json, d.dat, e.pdf, f.xml, g.py, h.zip, j.csv, k.JSON and the
\* directory sub/, which can hold b.XLSX and c.xls; "gone" does not exist.
\* The files that exist are the domain of fs.
DirNames == { "top", "top/sub", "gone" }

Paths == { "top/a.json", "top/d.dat", "top/sub/b.XLSX", "top/sub/c.xls" }

\* os.path.exists(directory)
DirExists(directory) == directory \in { "top", "top/sub" }

\* os.walk(directory) joined with os.path.join(root, file), in yield order
Walk(directory, present) ==
    LET here(p) == p \in present
    IN  CASE directory = "top" ->
               SelectSeq(<< "top/a.json", "top/d.dat", "top/e.pdf", "top/f.xml",
                            "top/g.py", "top/h.zip", "top/j.csv", "top/k.JSON",
                            "top/t.txt", "top/sub/b.XLSX", "top/sub/c.xls" >>, here)
          [] directory = "top/sub" ->
               SelectSeq(<< "top/sub/b.XLSX", "top/sub/c.xls" >>, here)
          [] OTHER -> << >>

\* os.listdir(directory) joined with the directory: entries of any kind
ListDir(directory, present) ==
    LET here(p) == p \in present \/ p = "top/sub"
    IN  CASE directory = "top" ->
               SelectSeq(<< "top/a.json", "top/d.dat", "top/e.pdf", "top/f.xml",
                            "top/g.py", "top/h.zip", "top/j.csv", "top/k.JSON",
                            "top/t.txt", "top/sub" >>, here)
          [] directory = "top/sub" ->
               SelectSeq(<< "top/sub/b.XLSX", "top/sub/c.xls" >>, here)
          [] OTHER -> << >>

\* os.path.isfile(file_path)
IsFile(p, present) == p \in present

\* Path(file_path).suffix
Suffix(p) ==
    CASE p = "top/a.json"     -> ".json"
      [] p = "top/d.dat"      -> ".dat"
      [] p = "top/e.pdf"      -> ".pdf"
      [] p = "top/f.xml"      -> ".xml"
      [] p = "top/g.py"       -> ".py"
      [] p = "top/h.zip"      -> ".zip"
      [] p = "top/j.csv"      -> ".csv"
      [] p = "top/k.JSON"     -> ".JSON"
      [] p = "top/t.txt"      -> ".txt"
      [] p = "top/sub/b.XLSX" -> ".XLSX"
      [] p = "top/sub/c.xls"  -> ".xls"
      [] OTHER                -> ""

\* str.lower() on the suffixes that occur
Lower(s) ==
    CASE s = ".XLSX" -> ".xlsx"
      [] s = ".XLS"  -> ".xls"
      [] s = ".JSON" -> ".json"
      [] OTHER       -> s

\* keys of self.file_handlers
HandlerExts == { ".csv", ".json", ".xlsx", ".xls", ".pdf", ".txt", ".py",
                 ".sql", ".xml", ".zip", ".rar" }

ExcelExts == { ".xlsx", ".xls" }

\* ------------------------------------------------- what a path can hold
\* probe:   how the calls of _check_basic_accessibility end for the path
\* size:    st_size
\* content: "ok" well formed for the claimed format, "bad" bytes that do not
\*          conform to it, "io_error" reading the file raises
\* hash:    "ok" the file can be streamed, "fails" open/read raises
ProbeOutcomes == { "missing", "stat_raises", "timestamp_raises", "access_raises",
                   "unreadable", "readable" }

FileSizes == { 0, 2048 }

ContentKinds == { "ok", "bad", "io_error" }

HashOutcomes == { "ok", "fails" }

FileInputs == [ probe : ProbeOutcomes, size : FileSizes, content : ContentKinds,
                hash : HashOutcomes ]

\* ------------------------------------------------------------- script.py
calculate_file_hash(inp, algorithm) ==
    IF inp.hash = "ok" THEN algorithm \o "-hexdigest" ELSE None

_check_basic_accessibility(file_path, inp) ==
    LET result == [ file_path |-> file_path, file_size |-> 0,
                    is_accessible |-> FALSE, is_readable |-> FALSE,
                    permissions |-> "", last_modified |-> "", error |-> None ]
        stat   == [ result EXCEPT !.file_size = inp.size ]
        opened == [ stat EXCEPT !.last_modified = "isoformat",
                                !.permissions = "644", !.is_accessible = TRUE ]
    IN  CASE inp.probe = "missing"          -> [ result EXCEPT !.error = "Arquivo nao encontrado" ]
          [] inp.probe = "stat_raises"      -> [ result EXCEPT !.error = "OSError" ]
          [] inp.probe = "timestamp_raises" -> [ stat EXCEPT !.error = "OverflowError" ]
          [] inp.probe = "access_raises"    -> [ opened EXCEPT !.error = "ValueError" ]
          [] inp.probe = "unreadable"       -> opened
          [] OTHER                          -> [ opened EXCEPT !.is_readable = TRUE ]

_check_csv_file(inp) ==
    LET integrity_check == [ format_valid |-> FALSE, rows_count |-> 0,
                             columns_count |-> 0, encoding |-> "unknown" ]
    IN  IF inp.content = "io_error"
        THEN Put(integrity_check, "error", "OSError")
        ELSE Put([ integrity_check EXCEPT !.format_valid = TRUE, !.encoding = "utf-8" ],
                 "separator", ",")

_check_json_file(inp) ==
    LET integrity_check == [ format_valid |-> FALSE, json_valid |-> FALSE ]
    IN  CASE inp.content = "io_error" -> Put(integrity_check, "error", "OSError")
          [] inp.content = "bad"      -> Put(integrity_check, "error", "JSON invalido")
          [] OTHER -> Put([ integrity_check EXCEPT !.format_valid = TRUE,
                                                   !.json_valid = TRUE ],
                          "data_type", "dict")

_check_excel_file(inp, pandas) ==
    LET integrity_check == [ format_valid |-> FALSE, sheets_count |-> 0,
                             verification_level |-> "basic" ]
        basic == IF inp.content = "ok"
                 THEN Put([ integrity_check EXCEPT !.format_valid = TRUE ],
                          "file_type", "excel")
                 ELSE integrity_check
        advanced == Put([ basic EXCEPT !.verification_level = "advanced" ],
                        "pandas_version", "x.y")
        limited == Put(Put(Put(basic, "warning", "Verificacao limitada"),
                           "enhancement_available", TRUE),
                       "missing_modules", "pandas")
    IN  CASE inp.content = "io_error" ->
               Put(integrity_check, "error", "Erro na verificacao basica")
          [] pandas /\ inp.content = "ok" ->
               Put([ advanced EXCEPT !.sheets_count = 1 ], "structure_valid", TRUE)
          [] pandas ->
               Put(advanced, "error", "Arquivo Excel corrompido ou formato invalido")
          [] inp.content = "ok" ->
               Put(limited, "suggestion", "Instale pandas e openpyxl")
          [] OTHER -> limited

_check_pdf_file(inp) ==
    LET integrity_check == [ format_valid |-> FALSE, pages_count |-> 0 ]
        header == IF inp.content = "ok"
                  THEN Put([ integrity_check EXCEPT !.format_valid = TRUE ],
                           "pdf_version", "%PDF-1.x")
                  ELSE integrity_check
    IN  CASE inp.content = "io_error" -> Put(integrity_check, "error", "OSError")
          [] inp.size < 1024          -> Put(header, "error", "Invalid argument")
          [] inp.content = "ok"       -> Put(header, "has_eof", TRUE)
          [] OTHER                    -> header

_check_text_file(inp) ==
    LET integrity_check == [ format_valid |-> FALSE, lines_count |-> 0,
                             encoding |-> "unknown" ]
    IN  IF inp.content = "io_error"
        THEN Put(integrity_check, "error", "OSError")
        ELSE Put([ integrity_check EXCEPT !.format_valid = TRUE, !.encoding = "utf-8" ],
                 "char_count", inp.size)

_check_python_file(inp) ==
    LET integrity_check == [ format_valid |-> FALSE, syntax_valid |-> FALSE ]
    IN  CASE inp.content = "io_error" -> Put(integrity_check, "error", "OSError")
          [] inp.content = "bad" ->
               Put([ integrity_check EXCEPT !.format_valid = TRUE ],
                   "syntax_error", "invalid syntax")
          [] OTHER -> Put([ integrity_check EXCEPT !.format_valid = TRUE,
                                                   !.syntax_valid = TRUE ],
                          "lines_count", 1)

_check_sql_file(inp) ==
    LET integrity_check == [ format_valid |-> FALSE, statements_count |-> 0 ]
    IN  CASE inp.content = "io_error" -> Put(integrity_check, "error", "OSError")
          [] inp.content = "bad"      -> Put(integrity_check, "error", "UnicodeDecodeError")
          [] OTHER -> Put([ integrity_check EXCEPT !.format_valid = TRUE ],
                          "lines_count", 1)

_check_xml_file(inp) ==
    LET integrity_check == [ format_valid |-> FALSE, well_formed |-> FALSE ]
    IN  CASE inp.content = "io_error" -> Put(integrity_check, "error", "OSError")
          [] inp.content = "bad" ->
               Put([ integrity_check EXCEPT !.format_valid = TRUE ],
                   "xml_error", "ParseError")
          [] OTHER -> Put([ integrity_check EXCEPT !.format_valid = TRUE,
                                                   !.well_formed = TRUE ],
                          "root_tag", "root")

_check_zip_file(inp) ==
    LET integrity_check == [ format_valid |-> FALSE, files_count |-> 0 ]
        tested == [ integrity_check EXCEPT !.format_valid = TRUE, !.files_count = 1 ]
    IN  CASE inp.content = "io_error" -> Put(integrity_check, "error", "BadZipFile")
          [] inp.content = "bad" ->
               Put(Put(tested, "is_corrupted", TRUE), "corrupted_file", "member")
          [] OTHER -> Put(tested, "is_corrupted", FALSE)

_check_rar_file(inp) ==
    LET integrity_check == [ format_valid |-> FALSE ]
    IN  CASE inp.content = "io_error" -> Put(integrity_check, "error", "OSError")
          [] inp.content = "bad"      -> integrity_check
          [] OTHER -> Put([ integrity_check EXCEPT !.format_valid = TRUE ],
                          "rar_signature", TRUE)

\* self.file_handlers[file_ext](file_path)
file_handlers(file_ext, inp, pandas) ==
    CASE file_ext = ".csv"  -> _check_csv_file(inp)
      [] file_ext = ".json" -> _check_json_file(inp)
      [] file_ext = ".xlsx" -> _check_excel_file(inp, pandas)
      [] file_ext = ".xls"  -> _check_excel_file(inp, pandas)
      [] file_ext = ".pdf"  -> _check_pdf_file(inp)
      [] file_ext = ".txt"  -> _check_text_file(inp)
      [] file_ext = ".py"   -> _check_python_file(inp)
      [] file_ext = ".sql"  -> _check_sql_file(inp)
      [] file_ext = ".xml"  -> _check_xml_file(inp)
      [] file_ext = ".zip"  -> _check_zip_file(inp)
      [] file_ext = ".rar"  -> _check_rar_file(inp)

\* ------------------------------------------- the optional Excel capability
\* What the environment answers during one run of the capability check:
\* prompt  - input("Instalar automaticamente? (s/N): ")
\* install - subprocess.check_call(pip install ...) and the re-check after it
PromptOutcomes == { "yes", "no", "raises" }

InstallOutcomes == { "installed", "still_missing", "called_process_error",
                     "other_exception" }

EnhancementInputs == [ prompt : PromptOutcomes, install : InstallOutcomes ]

\* The prompt and the installer are reached only by the first spreadsheet
\* file of a checker that finds the capability absent; no other call draws
\* an answer from the environment.
EnhancementAnswers(file_path, self) ==
    IF Lower(Suffix(file_path)) \in ExcelExts /\ ~self.checked /\ ~self.pandas
    THEN EnhancementInputs
    ELSE { [ prompt |-> "no", install |-> "still_missing" ] }

\* ExcelDependencyManager.check_pandas_available()[0]
check_pandas_available(pandas) == pandas

\* ExcelDependencyManager.install_excel_dependencies(auto_install)
install_excel_dependencies(auto_install, pandas, e) ==
    LET done(success, now) == [ raised |-> FALSE, success |-> success, pandas |-> now ]
    IN  IF check_pandas_available(pandas) THEN done(TRUE, pandas)
        ELSE IF ~auto_install /\ e.prompt = "raises"
             THEN [ raised |-> TRUE, success |-> FALSE, pandas |-> pandas ]
        ELSE IF ~auto_install /\ e.prompt = "no" THEN done(FALSE, pandas)
        ELSE CASE e.install = "installed"     -> done(check_pandas_available(TRUE), TRUE)
               [] e.install = "still_missing" -> done(check_pandas_available(FALSE), FALSE)
               [] OTHER                       -> done(FALSE, pandas)

\* _check_excel_enhancement that never records that the check has run
_check_excel_enhancement_not_memoized(checked, enhanced, auto_install, pandas, e) ==
    LET skip == [ raised |-> FALSE, checked |-> checked, enhanced |-> enhanced,
                  pandas |-> pandas, ran |-> FALSE ]
        inst == install_excel_dependencies(auto_install, pandas, e)
    IN  IF checked THEN skip
        ELSE IF check_pandas_available(pandas)
             THEN [ skip EXCEPT !.enhanced = TRUE, !.ran = TRUE ]
        ELSE [ raised   |-> inst.raised,
               checked  |-> checked,
               enhanced |-> IF ~inst.raised /\ inst.success THEN TRUE ELSE enhanced,
               pandas   |-> inst.pandas,
               ran      |-> TRUE ]

\* _check_excel_enhancement that sets the flag after the probe and the install
\* attempt instead of before them: an attempt that raises leaves it unset
_check_excel_enhancement_flag_after_probe(checked, enhanced, auto_install, pandas, e) ==
    LET skip == [ raised |-> FALSE, checked |-> checked, enhanced |-> enhanced,
                  pandas |-> pandas, ran |-> FALSE ]
        inst == install_excel_dependencies(auto_install, pandas, e)
    IN  IF checked THEN skip
        ELSE IF check_pandas_available(pandas)
             THEN [ skip EXCEPT !.checked = TRUE, !.enhanced = TRUE, !.ran = TRUE ]
        ELSE [ raised   |-> inst.raised,
               checked  |-> ~inst.raised,
               enhanced |-> IF ~inst.raised /\ inst.success THEN TRUE ELSE enhanced,
               pandas   |-> inst.pandas,
               ran      |-> TRUE ]

\* FileIntegrityChecker._check_excel_enhancement
_check_excel_enhancement(checked, enhanced, auto_install, pandas, e) ==
    LET skip == [ raised |-> FALSE, checked |-> checked, enhanced |-> enhanced,
                  pandas |-> pandas, ran |-> FALSE ]
        inst == install_excel_dependencies(auto_install, pandas, e)
    IN  IF checked THEN skip
        ELSE IF check_pandas_available(pandas)
             THEN [ skip EXCEPT !.checked = TRUE, !.enhanced = TRUE, !.ran = TRUE ]
        ELSE [ raised   |-> inst.raised,
               checked  |-> TRUE,
               enhanced |-> IF ~inst.raised /\ inst.success THEN TRUE ELSE enhanced,
               pandas   |-> inst.pandas,
               ran      |-> TRUE ]

\* determine_status without the branch for a validator error
determine_status_no_error_branch(result) ==
    IF result.is_readable
    THEN IF result.file_size = 0
         THEN Put(Put(result, "integrity_status", "UNKNOWN"), "warning", "Arquivo vazio")
         ELSE Put(result, "integrity_status", "INTACT")
    ELSE Put(result, "integrity_status", "CORRUPTED")

\* determine_status reporting a file it cannot read as INACCESSIBLE
determine_status_unreadable_inaccessible(result) ==
    IF result.is_readable
    THEN IF result.file_size = 0
         THEN Put(Put(result, "integrity_status", "UNKNOWN"), "warning", "Arquivo vazio")
         ELSE IF Has(result, "specific_checks") /\ Has(result.specific_checks, "error")
              THEN Put(result, "integrity_status", "CORRUPTED")
         ELSE Put(result, "integrity_status", "INTACT")
    ELSE Put(result, "integrity_status", "INACCESSIBLE")

\* determine_status testing the validator error before the size
determine_status_error_first(result) ==
    IF result.is_readable
    THEN IF Has(result, "specific_checks") /\ Has(result.specific_checks, "error")
         THEN Put(result, "integrity_status", "CORRUPTED")
         ELSE IF result.file_size = 0
              THEN Put(Put(result, "integrity_status", "UNKNOWN"), "warning", "Arquivo vazio")
         ELSE Put(result, "integrity_status", "INTACT")
    ELSE Put(result, "integrity_status", "CORRUPTED")

\* determine_status treating a validator warning like a validator error
determine_status_warning_corrupts(result) ==
    IF result.is_readable
    THEN IF result.file_size = 0
         THEN Put(Put(result, "integrity_status", "UNKNOWN"), "warning", "Arquivo vazio")
         ELSE IF Has(result, "specific_checks")
                 /\ ( Has(result.specific_checks, "error")
                      \/ Has(result.specific_checks, "warning") )
              THEN Put(result, "integrity_status", "CORRUPTED")
         ELSE Put(result, "integrity_status", "INTACT")
    ELSE Put(result, "integrity_status", "CORRUPTED")

\* determine_status treating a signature or format mismatch like an error
determine_status_format_invalid_corrupts(result) ==
    IF result.is_readable
    THEN IF result.file_size = 0
         THEN Put(Put(result, "integrity_status", "UNKNOWN"), "warning", "Arquivo vazio")
         ELSE IF Has(result, "specific_checks")
                 /\ ( Has(result.specific_checks, "error")
                      \/ ( Has(result.specific_checks, "format_valid")
                           /\ ~result.specific_checks.format_valid ) )
              THEN Put(result, "integrity_status", "CORRUPTED")
         ELSE Put(result, "integrity_status", "INTACT")
    ELSE Put(result, "integrity_status", "CORRUPTED")

\* "Determinar status de integridade" at the end of check_file_integrity
determine_status(result) ==
    IF result.is_readable
    THEN IF result.file_size = 0
         THEN Put(Put(result, "integrity_status", "UNKNOWN"), "warning", "Arquivo vazio")
         ELSE IF Has(result, "specific_checks") /\ ~Has(result.specific_checks, "error")
              THEN Put(result, "integrity_status", "INTACT")
         ELSE IF Has(result, "specific_checks") /\ Has(result.specific_checks, "error")
              THEN Put(result, "integrity_status", "CORRUPTED")
         ELSE Put(result, "integrity_status", "INTACT")
    ELSE Put(result, "integrity_status", "CORRUPTED")

\* check_file_integrity reporting a file it could not hash as CORRUPTED
check_file_integrity_hash_decides(file_path, inp, self, e) ==
    LET basic    == _check_basic_accessibility(file_path, inp)
        hashed   == Put(Put(basic, "md5_hash", calculate_file_hash(inp, "md5")),
                        "sha256_hash", calculate_file_hash(inp, "sha256"))
        file_ext == Lower(Suffix(file_path))
        enh      == IF file_ext \in ExcelExts
                    THEN _check_excel_enhancement(self.checked, self.summary.enhanced_excel_analysis,
                                                  self.auto_install, self.pandas, e)
                    ELSE [ raised |-> FALSE, checked |-> self.checked,
                           enhanced |-> self.summary.enhanced_excel_analysis,
                           pandas |-> self.pandas, ran |-> FALSE ]
        counted  == IF file_ext \in ExcelExts /\ ~enh.raised
                    THEN self.summary.excel_files + 1
                    ELSE self.summary.excel_files
        after    == [ self EXCEPT !.checked = enh.checked, !.pandas = enh.pandas,
                                  !.summary.enhanced_excel_analysis = enh.enhanced,
                                  !.summary.excel_files = counted ]
        specific == IF file_ext \in HandlerExts
                    THEN file_handlers(file_ext, inp, enh.pandas)
                    ELSE [ format |-> "unknown",
                           message |-> "Tipo de arquivo nao reconhecido" ]
    IN  IF ~basic.is_accessible
        THEN [ raised |-> FALSE, ran |-> FALSE, self |-> self,
               result |-> Put(basic, "integrity_status", "INACCESSIBLE") ]
        ELSE IF enh.raised
             THEN [ raised |-> TRUE, ran |-> enh.ran, self |-> after, result |-> << >> ]
        ELSE [ raised |-> FALSE, ran |-> enh.ran, self |-> after,
               result |-> IF hashed.md5_hash = None
                          THEN Put(Put(hashed, "specific_checks", specific),
                                   "integrity_status", "CORRUPTED")
                          ELSE determine_status(Put(hashed, "specific_checks", specific)) ]

\* check_file_integrity choosing the tier of the spreadsheet validator before
\* the capability check of the same call has run
check_file_integrity_validates_first(file_path, inp, self, e) ==
    LET basic    == _check_basic_accessibility(file_path, inp)
        hashed   == Put(Put(basic, "md5_hash", calculate_file_hash(inp, "md5")),
                        "sha256_hash", calculate_file_hash(inp, "sha256"))
        file_ext == Lower(Suffix(file_path))
        enh      == IF file_ext \in ExcelExts
                    THEN _check_excel_enhancement(self.checked, self.summary.enhanced_excel_analysis,
                                                  self.auto_install, self.pandas, e)
                    ELSE [ raised |-> FALSE, checked |-> self.checked,
                           enhanced |-> self.summary.enhanced_excel_analysis,
                           pandas |-> self.pandas, ran |-> FALSE ]
        counted  == IF file_ext \in ExcelExts /\ ~enh.raised
                    THEN self.summary.excel_files + 1
                    ELSE self.summary.excel_files
        after    == [ self EXCEPT !.checked = enh.checked, !.pandas = enh.pandas,
                                  !.summary.enhanced_excel_analysis = enh.enhanced,
                                  !.summary.excel_files = counted ]
        specific == IF file_ext \in HandlerExts
                    THEN file_handlers(file_ext, inp, self.pandas)
                    ELSE [ format |-> "unknown",
                           message |-> "Tipo de arquivo nao reconhecido" ]
    IN  IF ~basic.is_accessible
        THEN [ raised |-> FALSE, ran |-> FALSE, self |-> self,
               result |-> Put(basic, "integrity_status", "INACCESSIBLE") ]
        ELSE IF enh.raised
             THEN [ raised |-> TRUE, ran |-> enh.ran, self |-> after, result |-> << >> ]
        ELSE [ raised |-> FALSE, ran |-> enh.ran, self |-> after,
               result |-> determine_status(Put(hashed, "specific_checks", specific)) ]

\* FileIntegrityChecker.check_file_integrity.  self is the part of the checker
\* and of the environment the call can change; the value returned carries
\* the record (when the call returns) and the changed self.
check_file_integrity(file_path, inp, self, e) ==
    LET basic    == _check_basic_accessibility(file_path, inp)
        hashed   == Put(Put(basic, "md5_hash", calculate_file_hash(inp, "md5")),
                        "sha256_hash", calculate_file_hash(inp, "sha256"))
        file_ext == Lower(Suffix(file_path))
        enh      == IF file_ext \in ExcelExts
                    THEN _check_excel_enhancement(self.checked, self.summary.enhanced_excel_analysis,
                                                  self.auto_install, self.pandas, e)
                    ELSE [ raised |-> FALSE, checked |-> self.checked,
                           enhanced |-> self.summary.enhanced_excel_analysis,
                           pandas |-> self.pandas, ran |-> FALSE ]
        counted  == IF file_ext \in ExcelExts /\ ~enh.raised
                    THEN self.summary.excel_files + 1
                    ELSE self.summary.excel_files
        after    == [ self EXCEPT !.checked = enh.checked, !.pandas = enh.pandas,
                                  !.summary.enhanced_excel_analysis = enh.enhanced,
                                  !.summary.excel_files = counted ]
        specific == IF file_ext \in HandlerExts
                    THEN file_handlers(file_ext, inp, enh.pandas)
                    ELSE [ format |-> "unknown",
                           message |-> "Tipo de arquivo nao reconhecido" ]
    IN  IF ~basic.is_accessible
        THEN [ raised |-> FALSE, ran |-> FALSE, self |-> self,
               result |-> Put(basic, "integrity_status", "INACCESSIBLE") ]
        ELSE IF enh.raised
             THEN [ raised |-> TRUE, ran |-> enh.ran, self |-> after, result |-> << >> ]
        ELSE [ raised |-> FALSE, ran |-> enh.ran, self |-> after,
               result |-> determine_status(Put(hashed, "specific_checks", specific)) ]

\* update_summary counting every status that is neither CORRUPTED nor
\* INACCESSIBLE as intact
update_summary_else_intact(s, result) ==
    LET counted == [ s EXCEPT !.total_files = @ + 1 ]
    IN  CASE result.integrity_status = "CORRUPTED" ->
               [ counted EXCEPT !.corrupted_files = @ + 1 ]
          [] result.integrity_status = "INACCESSIBLE" ->
               [ counted EXCEPT !.inaccessible_files = @ + 1 ]
          [] OTHER -> [ counted EXCEPT !.intact_files = @ + 1 ]

\* "Atualizar sumario" in scan_directories and in process_file
update_summary(s, result) ==
    LET counted == [ s EXCEPT !.total_files = @ + 1 ]
    IN  CASE result.integrity_status = "INTACT" ->
               [ counted EXCEPT !.intact_files = @ + 1 ]
          [] result.integrity_status = "CORRUPTED" ->
               [ counted EXCEPT !.corrupted_files = @ + 1 ]
          [] result.integrity_status = "INACCESSIBLE" ->
               [ counted EXCEPT !.inaccessible_files = @ + 1 ]
          [] OTHER -> counted

\* CustomFileChecker.should_check_file
should_check_file(file_path, types) ==
    IF types = { } THEN TRUE ELSE Lower(Suffix(file_path)) \in types

\* ------------------------------------------- the validators on the bytes
\* The bytes (for text files the characters) of a file are a sequence of
\* runs [ b |-> byte, n |-> repetitions ], so that a file longer than the
\* 1024 bytes two of the validators sample stays a short sequence.
Run(b, n) == [ b |-> b, n |-> n ]

\* the literal bytes of s, one run each
Each(s) == [ i \in DOMAIN s |-> Run(s[i], 1) ]

\* n filler bytes
Filler(b, n) == IF n = 0 THEN << >> ELSE << Run(b, n) >>

\* st_size / len(bytes)
RECURSIVE Length(_)
Length(runs) ==
    IF runs = << >> THEN 0 ELSE Head(runs).n + Length(Tail(runs))

\* f.read(k) at the start of the file
RECURSIVE Take(_, _)
Take(runs, k) ==
    IF runs = << >> \/ k <= 0 THEN << >>
    ELSE IF Head(runs).n >= k THEN << Run(Head(runs).b, k) >>
    ELSE << Head(runs) >> \o Take(Tail(runs), k - Head(runs).n)

\* f.read() after the first k bytes
RECURSIVE Drop(_, _)
Drop(runs, k) ==
    IF runs = << >> THEN << >>
    ELSE IF k <= 0 THEN runs
    ELSE IF Head(runs).n > k
         THEN << Run(Head(runs).b, Head(runs).n - k) >> \o Tail(runs)
    ELSE Drop(Tail(runs), k - Head(runs).n)

\* the bytes one by one
RECURSIVE Expand(_)
Expand(runs) ==
    IF runs = << >> THEN << >>
    ELSE [ i \in 1..Head(runs).n |-> Head(runs).b ] \o Expand(Tail(runs))

\* bytes.startswith(prefix) comparing the whole of bytes
StartsWith_whole(bytes, prefix) == bytes = prefix

\* bytes.startswith(prefix)
StartsWith(bytes, prefix) ==
    Len(bytes) >= Len(prefix) /\ SubSeq(bytes, 1, Len(prefix)) = prefix

\* needle in bytes
Contains(bytes, needle) ==
    \E i \in 1..(Len(bytes) - Len(needle) + 1) :
        SubSeq(bytes, i, i + Len(needle) - 1) = needle

\* str.count(ch) for one character
RECURSIVE Count(_, _)
Count(ch, runs) ==
    IF runs = << >> THEN 0
    ELSE (IF Head(runs).b = ch THEN Head(runs).n ELSE 0) + Count(ch, Tail(runs))

HeaderSize == 8

TailSize == 1024

SampleSize == 1024

ZipMagic == << "P", "K", "03", "04" >>

OleMagic == << "D0", "CF", "11", "E0" >>

PdfMagic == << "%", "P", "D", "F", "-" >>

EofMarker == << "%", "%", "E", "O", "F" >>

\* open(file_path, 'r', encoding=encoding) and the reads that follow: utf-8
\* raises UnicodeDecodeError on a file that is not UTF-8, cp1252 on a byte
\* it leaves undefined (0x81 is the one the model draws), latin1 and its
\* alias iso-8859-1 decode every byte
Encodings == << "utf-8", "latin1", "cp1252", "iso-8859-1" >>

HighBytes == { "0xE9", "0x81" }

Decodes(encoding, file) ==
    CASE encoding = "utf-8"  -> file.utf8
      [] encoding = "cp1252" -> Count("0x81", file.bytes) = 0
      [] OTHER               -> TRUE

\* the encoding loop without its break: the last candidate that decodes
\* overwrites the earlier ones
RECURSIVE first_decoding_last_wins(_, _)
first_decoding_last_wins(file, i) ==
    IF i > Len(Encodings) THEN None
    ELSE LET later == first_decoding_last_wins(file, i + 1)
         IN  IF later # None THEN later
             ELSE IF Decodes(Encodings[i], file) THEN Encodings[i]
             ELSE None

\* for encoding in encodings: ... except UnicodeDecodeError: continue
RECURSIVE first_decoding(_, _)
first_decoding(file, i) ==
    IF i > Len(Encodings) THEN None
    ELSE IF Decodes(Encodings[i], file) THEN Encodings[i]
    ELSE first_decoding(file, i + 1)

Separators == << ",", ";", "\t", "|" >>

\* the separator loop resolving ties to the later candidate
RECURSIVE detect_separator_ties_to_last(_, _, _)
detect_separator_ties_to_last(sample, separator, i) ==
    IF i > Len(Separators) THEN separator
    ELSE detect_separator_ties_to_last(
             sample,
             IF Count(Separators[i], sample) >= Count(separator, sample)
             THEN Separators[i] ELSE separator,
             i + 1)

\* for sep in separators: if sample.count(sep) > sample.count(separator): ...
RECURSIVE detect_separator(_, _, _)
detect_separator(sample, separator, i) ==
    IF i > Len(Separators) THEN separator
    ELSE detect_separator(
             sample,
             IF Count(Separators[i], sample) > Count(separator, sample)
             THEN Separators[i] ELSE separator,
             i + 1)

\* list(csv.reader(f, delimiter=separator)) for text without quote
\* characters, as the field count of each record: one record per line, no
\* field in a blank line.  fields counts the fields of the line being read,
\* started tells whether the line has a character yet.
RECURSIVE csv_reader(_, _, _, _)
csv_reader(chars, separator, fields, started) ==
    IF chars = << >> THEN (IF started THEN << fields >> ELSE << >>)
    ELSE LET run  == Head(chars)
             sofar == IF started THEN fields ELSE 1
         IN  CASE run.b = "\n" ->
                    << IF started THEN fields ELSE 0 >>
                        \o [ i \in 1..(run.n - 1) |-> 0 ]
                        \o csv_reader(Tail(chars), separator, 0, FALSE)
               [] run.b = separator ->
                    csv_reader(Tail(chars), separator, sofar + run.n, TRUE)
               [] OTHER ->
                    csv_reader(Tail(chars), separator, sofar, TRUE)

\* _check_csv_file on the characters of the file
_check_csv_file_on(file) ==
    LET integrity_check == [ format_valid |-> FALSE, rows_count |-> 0,
                             columns_count |-> 0, encoding |-> "unknown" ]
        encoding  == first_decoding(file, 1)
        sample    == Take(file.bytes, SampleSize)
        separator == detect_separator(sample, ",", 1)
        rows      == csv_reader(file.bytes, separator, 0, FALSE)
    IN  CASE file.io = "raises" -> Put(integrity_check, "error", "OSError")
          [] encoding = None    -> integrity_check
          [] OTHER ->
               Put([ integrity_check EXCEPT
                         !.format_valid = TRUE,
                         !.rows_count = Len(rows),
                         !.columns_count = IF rows # << >> THEN rows[1] ELSE 0,
                         !.encoding = encoding ],
                   "separator", separator)

\* len(f.readlines()): one line per line end, and the unterminated last one
readlines(chars) ==
    Count("\n", chars)
        + (IF chars # << >> /\ chars[Len(chars)].b # "\n" THEN 1 ELSE 0)

\* _check_text_file on the characters of the file: every byte of the files
\* drawn is one character in the encoding that decodes it
_check_text_file_on(file) ==
    LET integrity_check == [ format_valid |-> FALSE, lines_count |-> 0,
                             encoding |-> "unknown" ]
        encoding == first_decoding(file, 1)
    IN  CASE file.io = "raises" -> Put(integrity_check, "error", "OSError")
          [] encoding = None    -> integrity_check
          [] OTHER ->
               Put([ integrity_check EXCEPT
                         !.format_valid = TRUE,
                         !.lines_count = readlines(file.bytes),
                         !.encoding = encoding ],
                   "char_count", Length(file.bytes))

\* json.load on the tokens of the document: "1" a number, "a" and "b"
\* strings.  The value is [ ok, pos, type, count ]: pos the token after the
\* value, count the len() of a dict or list.
StringTokens == { "a", "b" }

Tok(t, i) == IF i <= Len(t) THEN t[i] ELSE "end"

JSONDecodeError == [ ok |-> FALSE, pos |-> 0, type |-> "", count |-> 0 ]

RECURSIVE ParseValue(_, _), ParseElements(_, _, _), ParseMembers(_, _, _)
ParseValue(t, i) ==
    LET parsed(type, pos) == [ ok |-> TRUE, pos |-> pos, type |-> type, count |-> 0 ]
    IN  CASE Tok(t, i) = "1"           -> parsed("int", i + 1)
          [] Tok(t, i) \in StringTokens -> parsed("str", i + 1)
          [] Tok(t, i) = "[" ->
               IF Tok(t, i + 1) = "]" THEN parsed("list", i + 2)
               ELSE ParseElements(t, i + 1, 0)
          [] Tok(t, i) = "{" ->
               IF Tok(t, i + 1) = "}" THEN parsed("dict", i + 2)
               ELSE ParseMembers(t, i + 1, { })
          [] OTHER -> JSONDecodeError

ParseElements(t, i, n) ==
    LET v == ParseValue(t, i)
    IN  IF ~v.ok THEN JSONDecodeError
        ELSE CASE Tok(t, v.pos) = "," -> ParseElements(t, v.pos + 1, n + 1)
               [] Tok(t, v.pos) = "]" ->
                    [ ok |-> TRUE, pos |-> v.pos + 1, type |-> "list", count |-> n + 1 ]
               [] OTHER -> JSONDecodeError

ParseMembers(t, i, keys) ==
    IF Tok(t, i) \notin StringTokens \/ Tok(t, i + 1) # ":" THEN JSONDecodeError
    ELSE LET v == ParseValue(t, i + 2)
         IN  IF ~v.ok THEN JSONDecodeError
             ELSE CASE Tok(t, v.pos) = "," ->
                         ParseMembers(t, v.pos + 1, keys \cup { t[i] })
                    [] Tok(t, v.pos) = "}" ->
                         [ ok |-> TRUE, pos |-> v.pos + 1, type |-> "dict",
                           count |-> Cardinality(keys \cup { t[i] }) ]
                    [] OTHER -> JSONDecodeError

json_load(t) ==
    LET v == ParseValue(t, 1)
    IN  IF v.ok /\ v.pos = Len(t) + 1 THEN v ELSE JSONDecodeError

\* _check_json_file reporting a parse failure under a key of its own
_check_json_file_on_soft_failure(file) ==
    LET integrity_check == [ format_valid |-> FALSE, json_valid |-> FALSE ]
        data   == json_load(Expand(file.bytes))
        loaded == Put([ integrity_check EXCEPT !.format_valid = TRUE,
                                               !.json_valid = TRUE ],
                      "data_type", data.type)
    IN  CASE file.io = "raises"  -> Put(integrity_check, "error", "OSError")
          [] ~file.utf8          -> Put(integrity_check, "error", "UnicodeDecodeError")
          [] ~data.ok            -> Put(integrity_check, "json_error", "JSON invalido")
          [] data.type = "dict"  -> Put(loaded, "keys_count", data.count)
          [] data.type = "list"  -> Put(loaded, "items_count", data.count)
          [] OTHER               -> loaded

\* _check_json_file on the tokens of the file
_check_json_file_on(file) ==
    LET integrity_check == [ format_valid |-> FALSE, json_valid |-> FALSE ]
        data   == json_load(Expand(file.bytes))
        loaded == Put([ integrity_check EXCEPT !.format_valid = TRUE,
                                               !.json_valid = TRUE ],
                      "data_type", data.type)
    IN  CASE file.io = "raises"  -> Put(integrity_check, "error", "OSError")
          [] ~file.utf8          -> Put(integrity_check, "error", "UnicodeDecodeError")
          [] ~data.ok            -> Put(integrity_check, "error", "JSON invalido")
          [] data.type = "dict"  -> Put(loaded, "keys_count", data.count)
          [] data.type = "list"  -> Put(loaded, "items_count", data.count)
          [] OTHER               -> loaded

\* _check_excel_file whose ImportError branch records an error
_check_excel_file_on_missing_is_error(file_ext, file, pandas) ==
    LET integrity_check == [ format_valid |-> FALSE, sheets_count |-> 0,
                             verification_level |-> "basic" ]
        header == Expand(Take(file.bytes, HeaderSize))
        basic  == CASE file_ext = ".xlsx" /\ StartsWith(header, ZipMagic) ->
                         Put([ integrity_check EXCEPT !.format_valid = TRUE ],
                             "file_type", "xlsx")
                    [] file_ext = ".xls" /\ StartsWith(header, OleMagic) ->
                         Put([ integrity_check EXCEPT !.format_valid = TRUE ],
                             "file_type", "xls")
                    [] OTHER -> integrity_check
        advanced == Put([ basic EXCEPT !.verification_level = "advanced" ],
                        "pandas_version", "x.y")
        limited  == Put(Put(Put(basic, "error", "Verificacao limitada"),
                            "enhancement_available", TRUE),
                        "missing_modules", "pandas")
    IN  CASE file.io = "raises" ->
               Put(integrity_check, "error", "Erro na verificacao basica")
          [] pandas /\ file.workbook = "sheets" ->
               Put([ advanced EXCEPT !.sheets_count = 1 ], "structure_valid", TRUE)
          [] pandas /\ file.workbook = "empty" ->
               Put(Put(advanced, "structure_valid", FALSE),
                   "warning", "Arquivo Excel sem planilhas validas")
          [] pandas ->
               Put(advanced, "error", "Arquivo Excel corrompido ou formato invalido")
          [] basic.format_valid ->
               Put(limited, "suggestion", "Instale pandas e openpyxl")
          [] OTHER -> limited

\* _check_excel_file on the bytes of the file; file.workbook tells what
\* pd.ExcelFile makes of them: "no" it raises, "empty" a workbook without
\* sheets, "sheets" a workbook
_check_excel_file_on(file_ext, file, pandas) ==
    LET integrity_check == [ format_valid |-> FALSE, sheets_count |-> 0,
                             verification_level |-> "basic" ]
        header == Expand(Take(file.bytes, HeaderSize))
        basic  == CASE file_ext = ".xlsx" /\ StartsWith(header, ZipMagic) ->
                         Put([ integrity_check EXCEPT !.format_valid = TRUE ],
                             "file_type", "xlsx")
                    [] file_ext = ".xls" /\ StartsWith(header, OleMagic) ->
                         Put([ integrity_check EXCEPT !.format_valid = TRUE ],
                             "file_type", "xls")
                    [] OTHER -> integrity_check
        advanced == Put([ basic EXCEPT !.verification_level = "advanced" ],
                        "pandas_version", "x.y")
        limited  == Put(Put(Put(basic, "warning", "Verificacao limitada"),
                            "enhancement_available", TRUE),
                        "missing_modules", "pandas")
    IN  CASE file.io = "raises" ->
               Put(integrity_check, "error", "Erro na verificacao basica")
          [] pandas /\ file.workbook = "sheets" ->
               Put([ advanced EXCEPT !.sheets_count = 1 ], "structure_valid", TRUE)
          [] pandas /\ file.workbook = "empty" ->
               Put(Put(advanced, "structure_valid", FALSE),
                   "warning", "Arquivo Excel sem planilhas validas")
          [] pandas ->
               Put(advanced, "error", "Arquivo Excel corrompido ou formato invalido")
          [] basic.format_valid ->
               Put(limited, "suggestion", "Instale pandas e openpyxl")
          [] OTHER -> limited

\* _check_pdf_file on the bytes of the file: f.seek(-1024, 2) raises OSError
\* when the file is shorter than 1024 bytes
_check_pdf_file_on(file) ==
    LET integrity_check == [ format_valid |-> FALSE, pages_count |-> 0 ]
        header == Expand(Take(file.bytes, HeaderSize))
        signed == IF StartsWith(header, PdfMagic)
                  THEN Put([ integrity_check EXCEPT !.format_valid = TRUE ],
                           "pdf_version", header)
                  ELSE integrity_check
        tail   == Expand(Drop(file.bytes, Length(file.bytes) - TailSize))
    IN  CASE file.io = "raises"               -> Put(integrity_check, "error", "OSError")
          [] Length(file.bytes) < TailSize    -> Put(signed, "error", "Invalid argument")
          [] Contains(tail, EofMarker)        -> Put(signed, "has_eof", TRUE)
          [] OTHER                            -> signed

\* self.file_handlers[file_ext](file_path) for the validators above
file_handlers_on(file_ext, file, pandas) ==
    CASE file_ext = ".csv"  -> _check_csv_file_on(file)
      [] file_ext = ".json" -> _check_json_file_on(file)
      [] file_ext = ".xlsx" -> _check_excel_file_on(file_ext, file, pandas)
      [] file_ext = ".xls"  -> _check_excel_file_on(file_ext, file, pandas)
      [] file_ext = ".pdf"  -> _check_pdf_file_on(file)
      [] file_ext = ".txt"  -> _check_text_file_on(file)

\* check_file_integrity once the capability check has run: accessibility,
\* digests, the validator on the bytes of the file, the status
check_document(file, inp, pandas) ==
    LET basic  == _check_basic_accessibility(file.path, inp)
        hashed == Put(Put(basic, "md5_hash", calculate_file_hash(inp, "md5")),
                      "sha256_hash", calculate_file_hash(inp, "sha256"))
        specific == file_handlers_on(Lower(Suffix(file.path)), file, pandas)
    IN  determine_status(Put(hashed, "specific_checks", specific))

\* ------------------------------------------------------- report writers
\* f"{(part / total) * 100:.1f}" as a number of tenths of a percent
Percent(part, total) == (2000 * part + total) \div (2 * total)

\* result.get(key) is truthy
Truthy(result, key) == Has(result, key) /\ result[key] \notin { None, "" }

\* the entries under "=== ARQUIVOS CORROMPIDOS ===": one per CORRUPTED
\* record, with the line "Erro:" when result.get('error')
RECURSIVE corrupted_summary(_)
corrupted_summary(rs) ==
    IF rs = << >> THEN << >>
    ELSE LET result == Head(rs)
             entry  == [ file_path |-> result.file_path ]
         IN  (IF result.integrity_status # "CORRUPTED" THEN << >>
              ELSE IF Truthy(result, "error")
                   THEN << Put(entry, "Erro", result.error) >>
              ELSE << entry >>)
                 \o corrupted_summary(Tail(rs))

\* FileIntegrityChecker.generate_report: the records go to the JSON or CSV
\* file, the totals, the percentages and the corrupted files to the text
\* summary
generate_report(self) ==
    LET s == self.summary
    IN  [ written     |-> TRUE,
          details     |-> self.results,
          total_files |-> s.total_files,
          intact_files |-> s.intact_files,
          corrupted_files |-> s.corrupted_files,
          inaccessible_files |-> s.inaccessible_files,
          percentages |-> IF s.total_files > 0
                          THEN << Percent(s.intact_files, s.total_files),
                                  Percent(s.corrupted_files, s.total_files) >>
                          ELSE << >>,
          corrupted   |-> IF s.corrupted_files > 0
                          THEN corrupted_summary(self.results)
                          ELSE << >> ]

\* the paths of the tree in the order of sorted()
SortedPaths ==
    << "top/a.json", "top/d.dat", "top/e.pdf", "top/f.xml", "top/g.py", "top/h.zip",
       "top/j.csv", "top/k.JSON", "top/sub/b.XLSX", "top/sub/c.xls", "top/t.txt" >>

\* sorted(self.results, key=lambda x: x['file_path']), from the i-th path on
RECURSIVE sorted_by_path(_, _)
sorted_by_path(rs, i) ==
    IF i > Len(SortedPaths) THEN << >>
    ELSE LET at(result) == result.file_path = SortedPaths[i]
         IN  SelectSeq(rs, at) \o sorted_by_path(rs, i + 1)

\* the entries under "ARQUIVOS CORROMPIDOS" of the text report
RECURSIVE corrupted_files(_)
corrupted_files(rs) ==
    IF rs = << >> THEN << >>
    ELSE LET result == Head(rs)
             entry  == [ file_path |-> result.file_path,
                         Tamanho |-> result.file_size,
                         Modificado |-> result.last_modified ]
             erro   == IF Truthy(result, "error")
                       THEN Put(entry, "Erro", result.error) ELSE entry
             all    == IF Has(result, "specific_checks")
                           /\ Has(result.specific_checks, "error")
                       THEN Put(erro, "Detalhes", result.specific_checks.error)
                       ELSE erro
         IN  (IF result.integrity_status = "CORRUPTED" THEN << all >> ELSE << >>)
                 \o corrupted_files(Tail(rs))

\* the entries under "ARQUIVOS INACESSIVEIS" of the text report
RECURSIVE inaccessible_files(_)
inaccessible_files(rs) ==
    IF rs = << >> THEN << >>
    ELSE LET result == Head(rs)
             entry  == [ file_path |-> result.file_path ]
         IN  (IF result.integrity_status # "INACCESSIBLE" THEN << >>
              ELSE IF Truthy(result, "error")
                   THEN << Put(entry, "Erro", result.error) >>
              ELSE << entry >>)
                 \o inaccessible_files(Tail(rs))

\* CustomFileChecker.generate_text_report
generate_text_report(self) ==
    LET s == self.summary
        line(result) == [ status |-> result.integrity_status,
                          file_size |-> result.file_size,
                          file_path |-> result.file_path ]
        sorted == sorted_by_path(self.results, 1)
    IN  [ written      |-> TRUE,
          directories  |-> self.directories,
          recursive    |-> self.recursive,
          file_types   |-> self.file_types,
          total_files  |-> s.total_files,
          intact_files |-> s.intact_files,
          corrupted_files |-> s.corrupted_files,
          inaccessible_files |-> s.inaccessible_files,
          percentages  |-> IF s.total_files > 0
                           THEN << Percent(s.intact_files, s.total_files),
                                   Percent(s.corrupted_files, s.total_files),
                                   Percent(s.inaccessible_files, s.total_files) >>
                           ELSE << >>,
          corrupted    |-> corrupted_files(self.results),
          inaccessible |-> inaccessible_files(self.results),
          complete     |-> [ i \in DOMAIN sorted |-> line(sorted[i]) ] ]

\* main accepting the directories only when every one of them exists
valid_directories_all_or_none(directories_given) ==
    IF \A i \in DOMAIN directories_given : DirExists(directories_given[i])
    THEN directories_given ELSE << >>

\* main: the directories of the command line that exist
valid_directories(directories_given) == SelectSeq(directories_given, DirExists)

\* ------------------------------------------------------------------ Init
\* no report file has been written
NoReport == [ written |-> FALSE ]

Classes == { "FileIntegrityChecker", "CustomFileChecker" }

DirLists == UNION { [ 1..n -> DirNames ] : n \in 1..MaxDirs }

FilterChoices == { { }, { ".xlsx", ".xls" } }

\* FileIntegrityChecker.__init__ / CustomFileChecker.__init__
Construct ==
    /\ cls \in Classes
    /\ recursive \in IF cls = "CustomFileChecker" THEN BOOLEAN ELSE { TRUE }
    /\ file_types \in IF cls = "CustomFileChecker" THEN FilterChoices ELSE { { } }
    /\ auto_install_excel \in BOOLEAN
    /\ results = << >>
    /\ excel_enhancement_checked = FALSE
    /\ summary = [ total_files |-> 0, intact_files |-> 0, corrupted_files |-> 0,
                   inaccessible_files |-> 0, excel_files |-> 0,
                   enhanced_excel_analysis |-> FALSE ]
    /\ dir_index = 1
    /\ pending = << >>
    /\ pc = "scan"
    /\ discovered = << >>
    /\ calls = << >>
    /\ probe_runs = 0
    /\ doc = None
    /\ argv = << >>
    /\ exit_status = 0
    /\ report = NoReport
    /\ previous = << >>

\* The kinds of file a scan meets: one per status, and the failures of the
\* steps of one check.
ScanInputs ==
    { [ probe |-> "missing",    size |-> 2048, content |-> "ok",       hash |-> "ok" ],
      [ probe |-> "readable",   size |-> 0,    content |-> "bad",      hash |-> "ok" ],
      [ probe |-> "readable",   size |-> 2048, content |-> "ok",       hash |-> "ok" ],
      [ probe |-> "readable",   size |-> 2048, content |-> "io_error", hash |-> "fails" ],
      [ probe |-> "unreadable", size |-> 2048, content |-> "io_error", hash |-> "fails" ] }

ScanPaths == { "top/a.json", "top/sub/b.XLSX", "top/sub/c.xls" }

Init ==
    /\ Construct
    /\ directories \in DirLists
    /\ pandas_available \in BOOLEAN
    /\ fs \in [ ScanPaths -> ScanInputs ]

\* One file of any kind, of any of the suffixes, in an otherwise empty tree.
InitFile ==
    /\ Construct
    /\ directories \in { << "gone", "top" >>, << "top/sub", "top" >> }
    /\ pandas_available \in BOOLEAN
    /\ \E p \in Paths : fs \in [ { p } -> FileInputs ]

\* Two files side by side in top/ and top/sub/, both accessible, read by the
\* plain recursive scan of FileIntegrityChecker.
PairPaths == { "top/a.json", "top/k.JSON", "top/e.pdf", "top/f.xml", "top/g.py",
               "top/h.zip", "top/sub/b.XLSX" }

PairInputs == { inp \in FileInputs : inp.probe \in { "readable", "unreadable" } }

InitPair ==
    /\ Construct
    /\ cls = "FileIntegrityChecker"
    /\ auto_install_excel = FALSE
    /\ directories = << "top" >>
    /\ pandas_available \in BOOLEAN
    /\ \E p, q \in PairPaths : p # q /\ fs \in [ { p, q } -> PairInputs ]

\* ------------------------------------------------- the documents validated
\* A document is a file that exists and grants read access: its path, its
\* bytes, whether open() or a read raises, whether the bytes are UTF-8, and
\* what pd.ExcelFile makes of them.
RunPaths == { "top/a.json", "top/sub/b.XLSX" }

\* A run of one of the two tools: script.py from main with its command
\* line, or the scan and the report of the interactive tool for the
\* directories and options it has collected.
InitRun ==
    /\ pandas_available \in BOOLEAN
    /\ fs \in [ RunPaths -> ScanInputs ]
    /\ \/ /\ Construct
          /\ cls = "CustomFileChecker"
          /\ directories \in DirLists
       \/ /\ cls = "FileIntegrityChecker"
          /\ argv \in DirLists
          /\ pc = "main"
          /\ directories = << >>
          /\ recursive = TRUE
          /\ file_types = { }
          /\ auto_install_excel = FALSE
          /\ results = << >>
          /\ excel_enhancement_checked = FALSE
          /\ summary = [ total_files |-> 0, intact_files |-> 0, corrupted_files |-> 0,
                         inaccessible_files |-> 0, excel_files |-> 0,
                         enhanced_excel_analysis |-> FALSE ]
          /\ dir_index = 1
          /\ pending = << >>
          /\ discovered = << >>
          /\ calls = << >>
          /\ probe_runs = 0
          /\ doc = None
          /\ exit_status = 0
          /\ report = NoReport
          /\ previous = << >>

\* Two spreadsheet files, met once or twice in a run, in a tree that the
\* tool scans again: well formed or not, readable or gone.
TwicePaths == { "top/sub/b.XLSX", "top/sub/c.xls" }

TwiceInputs ==
    { inp \in FileInputs : /\ inp.probe \in { "readable", "missing" }
                           /\ inp.size = 2048
                           /\ inp.hash = "ok" }

InitTwice ==
    /\ Construct
    /\ cls = "FileIntegrityChecker"
    /\ directories \in { << "top" >>, << "top/sub", "top" >> }
    /\ pandas_available \in BOOLEAN
    /\ fs \in [ TwicePaths -> TwiceInputs ]

IoOutcomes == { "ok", "raises" }

SeqsUpTo(S, n) == UNION { [ 1..k -> S ] : k \in 0..n }

Document(path, bytes, io, utf8, workbook) ==
    [ path |-> path, bytes |-> bytes, io |-> io, utf8 |-> utf8, workbook |-> workbook ]

ExcelHeads == { ZipMagic, OleMagic, << "P", "K" >>, << "x" >> \o ZipMagic, << >> }

\* pd.ExcelFile finds a workbook only behind one of the two signatures
ExcelDocuments ==
    { d \in { Document(p, Each(h) \o Filler("x", n), io, FALSE, w) :
                  p \in { "top/sub/b.XLSX", "top/sub/c.xls" }, h \in ExcelHeads,
                  n \in { 0, 2000 }, io \in IoOutcomes,
                  w \in { "no", "empty", "sheets" } } :
        d.workbook # "no"
            => /\ Length(d.bytes) > HeaderSize
               /\ \/ StartsWith(Expand(Take(d.bytes, HeaderSize)), ZipMagic)
                  \/ StartsWith(Expand(Take(d.bytes, HeaderSize)), OleMagic) }

PdfHeads == { PdfMagic \o << "1", ".", "4" >>, << "%", "P", "D", "F" >>,
              << "x", "x", "x", "x", "x", "x", "x", "x" >>, << >> }

PdfTrailers == { EofMarker, << "%", "%", "E", "O" >>, << >> }

PdfDocuments ==
    { Document("top/e.pdf", Each(h) \o Filler("x", n) \o Each(t), io, FALSE, "no") :
          h \in PdfHeads, n \in { 0, 1000, 1011, 2000 }, t \in PdfTrailers,
          io \in IoOutcomes }

\* well-formed documents, and what is left of them when the end or one token
\* is missing
JsonSamples ==
    { << "1" >>, << "a" >>, << "{", "}" >>, << "[", "]" >>,
      << "{", "a", ":", "1", "}" >>,
      << "[", "1", ",", "a", "]" >>,
      << "{", "a", ":", "1", ",", "b", ":", "[", "1", "]", "}" >>,
      << "{", "a", ":", "1", ",", "a", ":", "1", "}" >>,
      << "[", "{", "a", ":", "1", "}", ",", "[", "]", "]" >> }

JsonTexts ==
    JsonSamples
        \cup UNION { { SubSeq(t, 1, n) : n \in 0..Len(t) } : t \in JsonSamples }
        \cup UNION { { SubSeq(t, 1, i - 1) \o SubSeq(t, i + 1, Len(t)) : i \in 1..Len(t) } :
                         t \in JsonSamples }

JsonDocuments ==
    { Document(p, Each(t), io, utf8, "no") :
          p \in { "top/a.json", "top/k.JSON" }, t \in JsonTexts,
          io \in IoOutcomes, utf8 \in BOOLEAN }

CsvChars == { ",", ";", "\t", "|", "a", "\n" }

\* a table of two rows and three columns
CsvSamples ==
    { << "a", ",", "a", ",", "a", "\n", "a", ",", "a", ",", "a", "\n" >> }

CsvDocuments ==
    { Document("top/j.csv", Each(t), "ok", TRUE, "no") : t \in CsvSamples }
    \cup
    { Document("top/j.csv", Each(lead) \o Filler("a", n) \o Each(trail), io, utf8, "no") :
          lead \in SeqsUpTo(CsvChars, MaxLead), n \in { 0, 1021, 1023 },
          trail \in SeqsUpTo(CsvChars, MaxTrail),
          io \in IoOutcomes, utf8 \in BOOLEAN }

TextChars == { "a", "\n" } \cup HighBytes

\* text of one-byte characters: it is UTF-8 unless it holds a high byte
TextDocuments ==
    { Document("top/t.txt", Each(lead) \o Filler("a", n) \o Each(trail), io,
               \A i \in DOMAIN lead : lead[i] \notin HighBytes, "no") :
          lead \in SeqsUpTo(TextChars, MaxLead), n \in { 0, 1000 },
          trail \in SeqsUpTo({ "a", "\n" }, MaxTrail), io \in IoOutcomes }

Documents == ExcelDocuments \cup PdfDocuments \cup JsonDocuments \cup CsvDocuments

\* The scan is in the walk of top and the next file it yields is doc; the
\* capability check has run for an earlier spreadsheet file.
InitValidate ==
    /\ \/ doc \in Documents
       \/ doc \in TextDocuments
    /\ pandas_available \in IF Lower(Suffix(doc.path)) \in ExcelExts
                            THEN BOOLEAN ELSE { FALSE }
    /\ cls = "FileIntegrityChecker"
    /\ recursive = TRUE
    /\ file_types = { }
    /\ auto_install_excel = FALSE
    /\ results = << >>
    /\ excel_enhancement_checked = TRUE
    /\ summary = [ total_files |-> 0, intact_files |-> 0, corrupted_files |-> 0,
                   inaccessible_files |-> 0, excel_files |-> 0,
                   enhanced_excel_analysis |-> pandas_available ]
    /\ directories = << "top" >>
    /\ dir_index = 1
    /\ fs = ( doc.path :> [ probe |-> "readable", size |-> Length(doc.bytes),
                            content |-> "ok",
                            hash |-> IF doc.io = "raises" THEN "fails" ELSE "ok" ] )
    /\ pending = << doc.path >>
    /\ pc = "walk"
    /\ discovered = << doc.path >>
    /\ calls = << >>
    /\ probe_runs = 0
    /\ argv = << >>
    /\ exit_status = 0
    /\ report = NoReport
    /\ previous = << >>

\* --------------------------------------------------------------- actions
\* The filters between the listing and process_file: os.path.isfile (only in
\* the non-recursive listing) and should_check_file (FileIntegrityChecker has
\* neither: its file_types is empty and it always walks).
Wanted(file_path) ==
    /\ recursive \/ IsFile(file_path, DOMAIN fs)
    /\ should_check_file(file_path, file_types)

\* after_iteration with the try block around the loop instead of its body:
\* an exception ends the listing of the directory
after_iteration_try_around_loop(files, raised) ==
    IF raised THEN << >> ELSE Tail(files)

\* What is left of the listing after one iteration of the loop over files,
\* whether or not the try block caught an exception.
after_iteration(files, raised) == Tail(files)

\* for directory in self.directories: the directory does not exist
SkipMissingDirectory ==
    /\ pc = "scan"
    /\ dir_index <= Len(directories)
    /\ ~DirExists(directories[dir_index])
    /\ dir_index' = dir_index + 1
    /\ UNCHANGED << argv, exit_status, report, previous, doc, cls, directories,
                    recursive, file_types, auto_install_excel,
                    results, summary, excel_enhancement_checked, pandas_available,
                    fs, pending, pc, discovered, calls, probe_runs >>

\* os.walk(directory) starts, or os.listdir(directory) returns
EnterDirectory ==
    /\ pc = "scan"
    /\ dir_index <= Len(directories)
    /\ DirExists(directories[dir_index])
    /\ pending' = IF recursive
                  THEN Walk(directories[dir_index], DOMAIN fs)
                  ELSE ListDir(directories[dir_index], DOMAIN fs)
    /\ discovered' = discovered \o SelectSeq(pending', Wanted)
    /\ pc' = "walk"
    /\ UNCHANGED << argv, exit_status, report, previous, doc, cls, directories,
                    recursive, file_types, auto_install_excel,
                    results, summary, excel_enhancement_checked, pandas_available,
                    fs, dir_index, calls, probe_runs >>

\* CustomFileChecker.scan_directories, not recursive: os.listdir raises
\* PermissionError
ListingDenied ==
    /\ pc = "scan"
    /\ dir_index <= Len(directories)
    /\ DirExists(directories[dir_index])
    /\ ~recursive
    /\ dir_index' = dir_index + 1
    /\ UNCHANGED << argv, exit_status, report, previous, doc, cls, directories,
                    recursive, file_types, auto_install_excel,
                    results, summary, excel_enhancement_checked, pandas_available,
                    fs, pending, pc, discovered, calls, probe_runs >>

\* One iteration of  for file in files  /  for item in os.listdir(directory):
\* the filters of CustomFileChecker, then the try block around
\* check_file_integrity and the summary update.
ProcessFile ==
    /\ pc = "walk"
    /\ pending # << >>
    /\ LET file_path == Head(pending)
           self == [ checked |-> excel_enhancement_checked, summary |-> summary,
                     auto_install |-> auto_install_excel, pandas |-> pandas_available ]
       IN  IF ~Wanted(file_path)
           THEN /\ pending' = Tail(pending)
                /\ UNCHANGED << results, summary, excel_enhancement_checked,
                                pandas_available, calls, probe_runs >>
           ELSE \E e \in EnhancementAnswers(file_path, self) :
                  LET r == check_file_integrity(file_path, fs[file_path], self, e)
                  IN  /\ pending' = after_iteration(pending, r.raised)
                      /\ excel_enhancement_checked' = r.self.checked
                      /\ pandas_available' = r.self.pandas
                      /\ probe_runs' = IF r.ran THEN probe_runs + 1 ELSE probe_runs
                      /\ calls' = Append(calls, [ file_path |-> file_path,
                                                  raised |-> r.raised, ran |-> r.ran,
                                                  enabled |-> r.self.summary.enhanced_excel_analysis ])
                      /\ IF r.raised
                         THEN /\ results' = results
                              /\ summary' = r.self.summary
                         ELSE /\ results' = Append(results, r.result)
                              /\ summary' = update_summary(r.self.summary, r.result)
    /\ UNCHANGED << argv, exit_status, report, previous, doc, cls, directories,
                    recursive, file_types, auto_install_excel,
                    fs, dir_index, pc, discovered >>

\* the walk of the directory is exhausted
LeaveDirectory ==
    /\ pc = "walk"
    /\ pending = << >>
    /\ dir_index' = dir_index + 1
    /\ pc' = "scan"
    /\ UNCHANGED << argv, exit_status, report, previous, doc, cls, directories,
                    recursive, file_types, auto_install_excel,
                    results, summary, excel_enhancement_checked, pandas_available,
                    fs, pending, discovered, calls, probe_runs >>

\* the loop over self.directories ends: scan_directories returns
FinishScan ==
    /\ pc = "scan"
    /\ dir_index > Len(directories)
    /\ pc' = "done"
    /\ UNCHANGED << argv, exit_status, report, previous, doc, cls, directories,
                    recursive, file_types, auto_install_excel,
                    results, summary, excel_enhancement_checked, pandas_available,
                    fs, dir_index, pending, discovered, calls, probe_runs >>

\* One iteration of  for file in files  for the file whose bytes are doc
ProcessDocument ==
    /\ pc = "walk"
    /\ pending # << >>
    /\ LET file_path == Head(pending)
           result == check_document(doc, fs[file_path], pandas_available)
           counted == IF Lower(Suffix(file_path)) \in ExcelExts
                      THEN [ summary EXCEPT !.excel_files = @ + 1 ]
                      ELSE summary
       IN  /\ results' = Append(results, result)
           /\ summary' = update_summary(counted, result)
           /\ calls' = Append(calls, [ file_path |-> file_path, raised |-> FALSE,
                                       ran |-> FALSE,
                                       enabled |-> summary.enhanced_excel_analysis ])
           /\ pending' = after_iteration(pending, FALSE)
    /\ UNCHANGED << argv, exit_status, report, previous, doc, cls, directories,
                    recursive, file_types, auto_install_excel,
                    excel_enhancement_checked, pandas_available, fs, dir_index, pc,
                    discovered, probe_runs >>

\* main: no directory of the command line exists, sys.exit(1)
MainRejects ==
    /\ pc = "main"
    /\ valid_directories(argv) = << >>
    /\ exit_status' = 1
    /\ pc' = "exited"
    /\ UNCHANGED << argv, report, previous, doc, cls, directories, recursive,
                    file_types, auto_install_excel, results, summary,
                    excel_enhancement_checked, pandas_available, fs, dir_index,
                    pending, discovered, calls, probe_runs >>

\* main: FileIntegrityChecker(valid_directories, args.format) and the call of
\* scan_directories
MainStarts ==
    /\ pc = "main"
    /\ valid_directories(argv) # << >>
    /\ directories' = valid_directories(argv)
    /\ results' = << >>
    /\ excel_enhancement_checked' = FALSE
    /\ summary' = [ total_files |-> 0, intact_files |-> 0, corrupted_files |-> 0,
                    inaccessible_files |-> 0, excel_files |-> 0,
                    enhanced_excel_analysis |-> FALSE ]
    /\ pc' = "scan"
    /\ UNCHANGED << argv, exit_status, report, previous, doc, cls, recursive,
                    file_types, auto_install_excel, pandas_available, fs, dir_index,
                    pending, discovered, calls, probe_runs >>

\* main: generate_report, the printed summary, and the return from main
MainReports ==
    /\ pc = "done"
    /\ cls = "FileIntegrityChecker"
    /\ report' = generate_report([ results |-> results, summary |-> summary ])
    /\ pc' = "exited"
    /\ UNCHANGED << argv, exit_status, previous, doc, cls, directories, recursive,
                    file_types, auto_install_excel, results, summary,
                    excel_enhancement_checked, pandas_available, fs, dir_index,
                    pending, discovered, calls, probe_runs >>

\* InteractiveFileChecker.execute_check after the scan: generate_text_report
\* and the printed totals
ExecuteCheckReports ==
    /\ pc = "done"
    /\ cls = "CustomFileChecker"
    /\ report' = generate_text_report([ results |-> results, summary |-> summary,
                                        directories |-> directories,
                                        recursive |-> recursive,
                                        file_types |-> file_types ])
    /\ pc' = "exited"
    /\ UNCHANGED << argv, exit_status, previous, doc, cls, directories, recursive,
                    file_types, auto_install_excel, results, summary,
                    excel_enhancement_checked, pandas_available, fs, dir_index,
                    pending, discovered, calls, probe_runs >>

\* The tool is started again for the same directories: a new checker, the
\* tree as it was, the modules that the earlier run has installed.
RunAgain ==
    /\ pc = "done"
    /\ Len(previous) < MaxRuns - 1
    /\ previous' = Append(previous, [ calls |-> calls, results |-> results ])
    /\ results' = << >>
    /\ excel_enhancement_checked' = FALSE
    /\ summary' = [ total_files |-> 0, intact_files |-> 0, corrupted_files |-> 0,
                    inaccessible_files |-> 0, excel_files |-> 0,
                    enhanced_excel_analysis |-> FALSE ]
    /\ dir_index' = 1
    /\ pending' = << >>
    /\ pc' = "scan"
    /\ discovered' = << >>
    /\ calls' = << >>
    /\ probe_runs' = 0
    /\ UNCHANGED << argv, exit_status, report, doc, cls, directories, recursive,
                    file_types, auto_install_excel, pandas_available, fs >>

Next ==
    \/ SkipMissingDirectory
    \/ EnterDirectory
    \/ ListingDenied
    \/ ProcessFile
    \/ LeaveDirectory
    \/ FinishScan

Spec == Init /\ [][Next]_vars

SpecFile == InitFile /\ [][Next]_vars

\* FileIntegrityChecker.scan_directories over directories that exist
NextWalk ==
    \/ EnterDirectory
    \/ ProcessFile
    \/ LeaveDirectory
    \/ FinishScan

SpecPair == InitPair /\ [][NextWalk]_vars

\* the rest of the scan around the file whose bytes are validated
NextValidate ==
    \/ ProcessDocument
    \/ LeaveDirectory
    \/ FinishScan

SpecValidate == InitValidate /\ [][NextValidate]_vars

\* a run of a tool from its start to the written report
NextRun ==
    \/ MainRejects
    \/ MainStarts
    \/ SkipMissingDirectory
    \/ EnterDirectory
    \/ ListingDenied
    \/ ProcessFile
    \/ LeaveDirectory
    \/ FinishScan
    \/ MainReports
    \/ ExecuteCheckReports

SpecRun == InitRun /\ [][NextRun]_vars

\* scans of the same tree by one run of the tool after the other
NextTwice ==
    \/ EnterDirectory
    \/ ProcessFile
    \/ LeaveDirectory
    \/ FinishScan
    \/ RunAgain

SpecTwice == InitTwice /\ [][NextTwice]_vars

\* ========================================================== properties
Statuses == { "INTACT", "CORRUPTED", "INACCESSIBLE", "UNKNOWN" }

Records == { results[i] : i \in DOMAIN results }

\* the validator result of a record contains 'error'
HardError(r) == Has(r, "specific_checks") /\ Has(r.specific_checks, "error")

\* the extension of the record's path has a registered validator
Recognized(r) == Lower(Suffix(r.file_path)) \in HandlerExts

\* The precedence of the classification, as a decision over the four inputs.
ReferenceStatus(accessible, readable, size, error) ==
    CASE ~accessible            -> "INACCESSIBLE"
      [] readable /\ size = 0   -> "UNKNOWN"
      [] error                  -> "CORRUPTED"
      [] ~readable              -> "CORRUPTED"
      [] OTHER                  -> "INTACT"

\* C1: every record's status is the one the precedence (not accessible ->
\* INACCESSIBLE; readable and empty -> UNKNOWN with a warning; validator error
\* -> CORRUPTED; not readable -> CORRUPTED; otherwise INTACT, unregistered
\* extensions included) gives for the record's accessible, readable, size and
\* validator result.
C1_StatusFollowsPrecedence ==
    \A r \in Records :
        /\ r.integrity_status =
               ReferenceStatus(r.is_accessible, r.is_readable, r.file_size, HardError(r))
        /\ r.integrity_status = "UNKNOWN" => Has(r, "warning")
        /\ ~Recognized(r) /\ r.is_readable /\ r.file_size # 0
               => r.integrity_status = "INTACT"

\* C1 witness: a finished scan classified a file that can be read, is not
\* empty and whose validator set an error.
C1_Witness ==
    /\ \E r \in Records : r.is_readable /\ r.file_size # 0 /\ HardError(r)
                          /\ r.integrity_status = "CORRUPTED"
    /\ pc = "done"

\* C2: every record carries one of the four statuses, and the status is
\* INACCESSIBLE exactly when the record's is_accessible is false.
C2_InaccessibleIffNotAccessible ==
    \A r \in Records :
        /\ Has(r, "integrity_status")
        /\ r.integrity_status \in Statuses
        /\ (r.integrity_status = "INACCESSIBLE") <=> ~r.is_accessible

\* C2 witness: an accessible file that cannot be read has a record (next to
\* the inaccessible ones other runs produce).
C2_Witness ==
    \E r \in Records : r.is_accessible /\ ~r.is_readable /\ ~HardError(r)

\* C3 as stated: an accessible zero-byte file with a recognized extension is
\* UNKNOWN whatever its read permission.
C3_Original_EmptyAlwaysUnknown ==
    \A r \in Records :
        Recognized(r) /\ r.is_accessible /\ fs[r.file_path].size = 0
            => r.integrity_status = "UNKNOWN"

\* C3 amended: a zero-byte file with a recognized extension that is readable
\* is UNKNOWN whatever its validator returned; one that is accessible but not
\* readable is CORRUPTED.
C3_ReadableEmptyIsUnknown ==
    \A r \in Records :
        Recognized(r) /\ r.is_accessible /\ fs[r.file_path].size = 0
            => /\ r.is_readable  => r.integrity_status = "UNKNOWN"
               /\ ~r.is_readable => r.integrity_status = "CORRUPTED"

\* C3 witness: a readable, empty file of a recognized extension whose
\* validator set an error has been classified.
C3_Witness ==
    \E r \in Records : /\ Recognized(r) /\ r.is_readable /\ r.file_size = 0
                       /\ HardError(r)

\* the paths check_file_integrity was called with, in call order
CallPaths == [ i \in DOMAIN calls |-> calls[i].file_path ]

\* number of records with the status
CountStatus(status) ==
    Cardinality({ i \in DOMAIN results : results[i].integrity_status = status })

\* C4 as stated: the per-status counts of the summary add up to total_files.
C4_Original_StatusCountsSumToTotal ==
    summary.intact_files + summary.corrupted_files + summary.inaccessible_files
        = summary.total_files

\* C5: intact_files, corrupted_files and inaccessible_files each equal the
\* number of records of results with that status, and total_files equals the
\* number of records.
C5_CountsMatchRecords ==
    /\ summary.total_files = Len(results)
    /\ summary.intact_files = CountStatus("INTACT")
    /\ summary.corrupted_files = CountStatus("CORRUPTED")
    /\ summary.inaccessible_files = CountStatus("INACCESSIBLE")

\* C5 witness: a finished scan that recorded files of at least three
\* different statuses, one of them UNKNOWN.
C5_Witness ==
    /\ pc = "done"
    /\ CountStatus("UNKNOWN") > 0
    /\ CountStatus("CORRUPTED") > 0
    /\ CountStatus("INTACT") + CountStatus("INACCESSIBLE") > 0

\* C6 as stated: no two records of results share a file_path, and every path
\* whose check returned has a record (the path whose check raised is the
\* subject of C7).
C6_Original_OneRecordPerPath ==
    /\ \A i, j \in DOMAIN results :
           i # j => results[i].file_path # results[j].file_path
    /\ \A c \in DOMAIN calls :
           ~calls[c].raised
               => \E i \in DOMAIN results : results[i].file_path = calls[c].file_path

\* C7 as stated: every call of check_file_integrity, whatever failed in it,
\* left a record in results and was counted in total_files.
C7_Original_EveryCheckLeavesRecord ==
    /\ Len(results) = Len(calls)
    /\ summary.total_files = Len(calls)

\* the files a recursive scan of self.directories has to check, from index i
RECURSIVE FilesFrom(_)
FilesFrom(i) ==
    IF i > Len(directories) THEN << >>
    ELSE SelectSeq(Walk(directories[i], DOMAIN fs), Wanted) \o FilesFrom(i + 1)

\* C8: no failure aborts the scan: every file discovered so far has been
\* checked or is still ahead in the running listing, and a finished recursive
\* scan has checked every file of every existing directory, in order.
C8_FailureNeverAbortsScan ==
    /\ CallPaths \o SelectSeq(pending, Wanted) = discovered
    /\ pc = "done" => pending = << >> /\ dir_index = Len(directories) + 1
    /\ pc = "done" /\ recursive => CallPaths = FilesFrom(1)

\* C8 witness: a finished scan in which a check raised and a file discovered
\* after it was checked.
C8_Witness ==
    /\ pc = "done"
    /\ \E i, j \in DOMAIN calls : i < j /\ calls[i].raised /\ ~calls[j].raised

\* C9: the capability check of _check_excel_enhancement ran at most once.
C9_CapabilityCheckAtMostOnce == probe_runs <= 1

\* C9 witness: the check ran and at least three spreadsheet files were met.
C9_Witness ==
    /\ probe_runs = 1
    /\ Cardinality({ i \in DOMAIN calls :
                       Lower(Suffix(calls[i].file_path)) \in ExcelExts }) >= 3

\* C10 as stated: when the capability check ran and did not enable the
\* enhancement, the file that triggered it and every later file got a record.
C10_Original_EnhancementFailureKeepsRecord ==
    \A i \in DOMAIN calls :
        calls[i].ran /\ ~calls[i].enabled
            => \A j \in DOMAIN calls : j >= i => ~calls[j].raised

\* the steps of _check_basic_accessibility that can raise
RaisingProbes == { "stat_raises", "timestamp_raises", "access_raises" }

\* C11 as stated: when a step of _check_basic_accessibility raised (stat, the
\* timestamp conversion or the read-access test), the record has
\* is_accessible false and an error message.
C11_Original_ProbeFailsClosed ==
    \A r \in Records :
        fs[r.file_path].probe \in RaisingProbes
            => ~r.is_accessible /\ r.error # None /\ r.error # ""

\* a file without read permission is one no open() succeeds on either
Coherent(inp) ==
    inp.probe = "unreadable" => inp.content = "io_error" /\ inp.hash = "fails"

\* C12 as stated: a record is CORRUPTED only if its validator result contains
\* 'error' (looked at for the files whose probe raised nothing, the others
\* being the subject of C11, and whose validator could open the file exactly
\* when the file is readable).
C12_Original_CorruptedOnlyOnError ==
    \A r \in Records :
        ( /\ r.integrity_status = "CORRUPTED"
          /\ fs[r.file_path].probe \notin RaisingProbes
          /\ Coherent(fs[r.file_path]) )
            => HardError(r)

\* C12 amended: a record of a readable file is CORRUPTED only if its validator
\* result contains 'error', so a 'warning' without 'error' leaves a readable
\* file INTACT or UNKNOWN; a record of an accessible file that is not
\* readable is CORRUPTED with or without a validator error.
C12_ReadableCorruptedOnlyOnError ==
    \A r \in Records :
        /\ r.integrity_status = "CORRUPTED" /\ r.is_readable => HardError(r)
        /\ r.is_accessible /\ ~r.is_readable => r.integrity_status = "CORRUPTED"

\* C12 witness: a readable, non-empty file whose validator set a warning and
\* no error has been classified INTACT.
C12_Witness ==
    \E r \in Records : /\ r.is_readable /\ r.file_size # 0
                       /\ Has(r, "specific_checks")
                       /\ Has(r.specific_checks, "warning") /\ ~HardError(r)
                       /\ r.integrity_status = "INTACT"

\* the record carries a digest under the key
HasDigest(r, key) == Has(r, key) /\ r[key] # None

\* C15 as stated: a record whose is_accessible or is_readable is false
\* carries no md5_hash and no sha256_hash digest.
C15_Original_DigestOnlyIfReadable ==
    \A r \in Records :
        ~r.is_accessible \/ ~r.is_readable
            => ~HasDigest(r, "md5_hash") /\ ~HasDigest(r, "sha256_hash")

\* C13: two records of accessible files that agree on is_readable, on the
\* size being zero and on the validator result containing 'error' have the
\* same status, whatever else the validator results hold (format_valid,
\* xml_error, syntax_error, is_corrupted, has_eof, warning).
C13_SoftSignalsNeverDecide ==
    \A r1, r2 \in Records :
        ( /\ r1.is_accessible /\ r2.is_accessible
          /\ r1.is_readable = r2.is_readable
          /\ (r1.file_size = 0) = (r2.file_size = 0)
          /\ HardError(r1) = HardError(r2) )
            => r1.integrity_status = r2.integrity_status

\* C13 witness: a finished scan classified two readable, non-empty files
\* INTACT, one whose validator reported no mismatch and one whose validator
\* reported a parse error, a bad archive member or a signature mismatch.
C13_Witness ==
    /\ pc = "done"
    /\ \E r1, r2 \in Records :
           /\ r1.is_readable /\ r2.is_readable
           /\ r1.file_size # 0 /\ r2.file_size # 0
           /\ r1.integrity_status = "INTACT" /\ r2.integrity_status = "INTACT"
           /\ r1.specific_checks.format_valid
           /\ \/ Has(r2.specific_checks, "xml_error")
              \/ Has(r2.specific_checks, "syntax_error")
              \/ Has(r2.specific_checks, "is_corrupted") /\ r2.specific_checks.is_corrupted
              \/ ~r2.specific_checks.format_valid

\* the two paths hold the same kind of file with the same bytes behind the
\* same probe, and differ at most in whether hashing succeeds
SameButHash(p, q) ==
    /\ Lower(Suffix(p)) = Lower(Suffix(q))
    /\ [ fs[p] EXCEPT !.hash = "ok" ] = [ fs[q] EXCEPT !.hash = "ok" ]

\* C14: of two checks of files that differ only in whether
\* calculate_file_hash returns a digest or None, either both produce a record
\* or neither does, and the two records have the same status and the same
\* validator result.
C14_HashNeverChangesVerdict ==
    \A i, j \in DOMAIN calls :
        SameButHash(calls[i].file_path, calls[j].file_path)
            => /\ calls[i].raised = calls[j].raised
               /\ ~calls[i].raised => \E r \in Records : r.file_path = calls[i].file_path
               /\ \A r1, r2 \in Records :
                      r1.file_path = calls[i].file_path /\ r2.file_path = calls[j].file_path
                          => /\ r1.integrity_status = r2.integrity_status
                             /\ r1.specific_checks = r2.specific_checks

\* C14 witness: a finished scan checked two files alike in everything but
\* hashing; one record carries a digest and the other None.
C14_Witness ==
    /\ pc = "done"
    /\ \E r1, r2 \in Records :
           /\ r1.file_path # r2.file_path
           /\ SameButHash(r1.file_path, r2.file_path)
           /\ r1.md5_hash = None /\ r2.md5_hash # None
           /\ r1.file_size # 0 /\ r1.is_readable

\* ------------------------------------- properties of the validated bytes
\* the suffix the validator of doc is chosen by
DocExt == Lower(Suffix(doc.path))

\* doc is not empty, and neither open() nor a read of it raises
CanBeRead == doc.io = "ok" /\ Length(doc.bytes) > 0

\* the first bytes of the file are the bytes of magic
BeginsWith(runs, magic) ==
    /\ Length(runs) >= Len(magic)
    /\ \A i \in 1..Len(magic) : Expand(Take(runs, i))[i] = magic[i]

\* C16 as stated: the PDF validator sets no 'error' for a non-empty .pdf file
\* of any length that can be read, and the file is not CORRUPTED (looked at
\* for the files that start with %PDF-).
C16_Original_PdfProbeNeverCorrupts ==
    \A r \in Records :
        DocExt = ".pdf" /\ r.is_readable /\ CanBeRead /\ BeginsWith(doc.bytes, PdfMagic)
            => ~HardError(r) /\ r.integrity_status # "CORRUPTED"

\* C17 as stated: a non-empty .xlsx file that can be read and starts with
\* 50 4B 03 04 has format_valid true, with or without the capability; one
\* that starts with other bytes has format_valid false, no 'error' and the
\* status INTACT.
C17_Original_XlsxSignature ==
    \A r \in Records :
        DocExt = ".xlsx" /\ r.is_readable /\ CanBeRead
            => IF BeginsWith(doc.bytes, ZipMagic)
               THEN r.specific_checks.format_valid
               ELSE /\ ~r.specific_checks.format_valid
                    /\ ~HardError(r)
                    /\ r.integrity_status = "INTACT"

\* C17 amended: a non-empty .xlsx file that can be read and starts with
\* 50 4B 03 04 has format_valid true, with or without the capability; one
\* that starts with other bytes has format_valid false, and has no 'error'
\* and the status INTACT when the capability is absent, while with the
\* capability present it has an 'error' and the status CORRUPTED exactly when
\* the workbook parser rejects the file.
C17_XlsxSignatureBasicTier ==
    \A r \in Records :
        DocExt = ".xlsx" /\ r.is_readable /\ CanBeRead
            => IF BeginsWith(doc.bytes, ZipMagic)
               THEN r.specific_checks.format_valid
               ELSE /\ ~r.specific_checks.format_valid
                    /\ ~pandas_available
                           => ~HardError(r) /\ r.integrity_status = "INTACT"
                    /\ pandas_available
                           => /\ HardError(r) <=> doc.workbook = "no"
                              /\ r.integrity_status =
                                     IF HardError(r) THEN "CORRUPTED" ELSE "INTACT"

\* C17 witness: an .xlsx file of more than eight bytes that starts with the
\* signature was validated without the capability and found format_valid.
C17_Witness ==
    \E r \in Records :
        /\ DocExt = ".xlsx" /\ CanBeRead /\ ~pandas_available
        /\ BeginsWith(doc.bytes, ZipMagic) /\ Length(doc.bytes) > HeaderSize
        /\ r.specific_checks.format_valid
        /\ r.integrity_status = "INTACT"

\* C18 as stated: when the capability is not available the Excel validator
\* records a warning and no 'error' (looked at for the files that are not
\* empty).
C18_Original_MissingCapabilityOnlyWarns ==
    \A r \in Records :
        DocExt \in ExcelExts /\ ~pandas_available /\ r.file_size # 0
            => Has(r.specific_checks, "warning") /\ ~HardError(r)

\* C18 amended: when the capability is not available and the header of the
\* spreadsheet file can be read, the Excel validator records a warning, a
\* suggestion exactly when the signature matches, and no 'error', and the
\* file is not CORRUPTED; when the header cannot be read it records an
\* 'error' and no warning, with or without the capability.
C18_MissingCapabilityOnlyWarns ==
    \A r \in Records :
        DocExt \in ExcelExts
            => /\ doc.io = "raises"
                   => HardError(r) /\ ~Has(r.specific_checks, "warning")
               /\ doc.io = "ok" /\ ~pandas_available
                   => /\ Has(r.specific_checks, "warning")
                      /\ Has(r.specific_checks, "suggestion")
                             <=> r.specific_checks.format_valid
                      /\ ~HardError(r)
                      /\ r.specific_checks.verification_level = "basic"
                      /\ r.integrity_status # "CORRUPTED"

\* C18 witness: a non-empty spreadsheet file with a foreign signature was
\* validated without the capability: warning, no suggestion, INTACT.
C18_Witness ==
    \E r \in Records :
        /\ DocExt \in ExcelExts /\ CanBeRead /\ ~pandas_available
        /\ Has(r.specific_checks, "warning")
        /\ ~Has(r.specific_checks, "suggestion")
        /\ r.integrity_status = "INTACT"

\* JSON text by reduction: the innermost bracket pair with a flat, well
\* formed interior is replaced by the value token "v" until one value is
\* left.
ValueTokens == StringTokens \cup { "1", "v" }

RECURSIVE FlatElements(_)
FlatElements(t) ==
    /\ Len(t) >= 1
    /\ t[1] \in ValueTokens
    /\ \/ Len(t) = 1
       \/ Len(t) >= 3 /\ t[2] = "," /\ FlatElements(SubSeq(t, 3, Len(t)))

RECURSIVE FlatMembers(_)
FlatMembers(t) ==
    /\ Len(t) >= 3
    /\ t[1] \in StringTokens /\ t[2] = ":" /\ t[3] \in ValueTokens
    /\ \/ Len(t) = 3
       \/ Len(t) >= 5 /\ t[4] = "," /\ FlatMembers(SubSeq(t, 5, Len(t)))

RECURSIVE WellFormed(_)
WellFormed(t) ==
    LET closers == { i \in 1..Len(t) : t[i] \in { "]", "}" } }
        close   == CHOOSE i \in closers : \A j \in closers : i <= j
        openers == { i \in 1..(close - 1) : t[i] \in { "[", "{" } }
        open    == CHOOSE i \in openers : \A j \in openers : j <= i
        inner   == SubSeq(t, open + 1, close - 1)
    IN  IF closers = { }
        THEN Len(t) = 1 /\ t[1] \in ValueTokens
        ELSE /\ openers # { }
             /\ \/ /\ t[open] = "[" /\ t[close] = "]"
                   /\ inner = << >> \/ FlatElements(inner)
                \/ /\ t[open] = "{" /\ t[close] = "}"
                   /\ inner = << >> \/ FlatMembers(inner)
             /\ WellFormed(SubSeq(t, 1, open - 1) \o << "v" >>
                               \o SubSeq(t, close + 1, Len(t)))

\* the tokens directly inside the outermost bracket pair
TopLevel(t) ==
    { i \in 2..(Len(t) - 1) :
          Cardinality({ j \in 1..(i - 1) : t[j] \in { "[", "{" } })
              - Cardinality({ j \in 1..(i - 1) : t[j] \in { "]", "}" } }) = 1 }

\* len() of the top-level list or dict of a well-formed text
TopLevelCount(t) ==
    CASE Len(t) = 2    -> 0
      [] t[1] = "["    -> 1 + Cardinality({ i \in TopLevel(t) : t[i] = "," })
      [] OTHER         -> Cardinality({ t[i - 1] : i \in { k \in TopLevel(t) : t[k] = ":" } })

\* C19: a non-empty .json file that can be read and parses as a whole has
\* format_valid true, the type of its top-level value, keys_count for an
\* object or items_count for an array, no 'error' and the status INTACT; one
\* that does not parse has an 'error' and the status CORRUPTED.
C19_JsonParseDecides ==
    \A r \in Records :
        DocExt = ".json" /\ r.is_readable /\ r.file_size # 0
            => LET t  == Expand(doc.bytes)
                   sc == r.specific_checks
               IN  IF doc.io = "ok" /\ doc.utf8 /\ WellFormed(t)
                   THEN /\ sc.format_valid /\ sc.json_valid
                        /\ ~HardError(r)
                        /\ r.integrity_status = "INTACT"
                        /\ sc.data_type = CASE t[1] = "{" -> "dict"
                                            [] t[1] = "[" -> "list"
                                            [] t[1] = "1" -> "int"
                                            [] OTHER      -> "str"
                        /\ Has(sc, "keys_count") <=> t[1] = "{"
                        /\ Has(sc, "items_count") <=> t[1] = "["
                        /\ t[1] = "{" => sc.keys_count = TopLevelCount(t)
                        /\ t[1] = "[" => sc.items_count = TopLevelCount(t)
                   ELSE /\ HardError(r)
                        /\ ~sc.format_valid
                        /\ r.integrity_status = "CORRUPTED"

\* C19 witness: the scan finished after an object of two keys, one of them
\* holding an array, was parsed.
C19_Witness ==
    /\ pc = "done"
    /\ \E r \in Records :
           /\ DocExt = ".json" /\ CanBeRead
           /\ Has(r.specific_checks, "keys_count")
           /\ r.specific_checks.keys_count = 2
           /\ r.integrity_status = "INTACT"

\* position of the candidate in the order comma, semicolon, tab, pipe
SeparatorIndex(ch) == CHOOSE i \in DOMAIN Separators : Separators[i] = ch

\* the characters before the first line end
FirstLine(chars) ==
    LET ends == { i \in DOMAIN chars : chars[i].b = "\n" }
    IN  IF ends = { } THEN chars
        ELSE SubSeq(chars, 1, (CHOOSE i \in ends : \A j \in ends : i <= j) - 1)

\* the lines of the text: one per line end, and the unterminated last one
LineCount(chars) ==
    Count("\n", chars)
        + (IF chars # << >> /\ chars[Len(chars)].b # "\n" THEN 1 ELSE 0)

\* C20: the separator of a validated CSV file is the candidate among comma,
\* semicolon, tab and pipe with the most occurrences in the first 1024
\* characters, the earliest of them in that order when several have the
\* most (comma when none occurs); rows_count is the number of parsed
\* records and columns_count the number of fields of the first record, 0
\* when there is none.
C20_CsvSeparatorAndCounts ==
    \A r \in Records :
        DocExt = ".csv" /\ doc.io = "ok"
            => LET sc     == r.specific_checks
                   sample == Take(doc.bytes, SampleSize)
                   first  == FirstLine(doc.bytes)
               IN  /\ sc.format_valid
                   /\ \E i \in DOMAIN Separators : sc.separator = Separators[i]
                   /\ \A i \in DOMAIN Separators :
                          /\ Count(Separators[i], sample) <= Count(sc.separator, sample)
                          /\ i < SeparatorIndex(sc.separator)
                                 => Count(Separators[i], sample) < Count(sc.separator, sample)
                   /\ (\A i \in DOMAIN Separators : Count(Separators[i], sample) = 0)
                          => sc.separator = ","
                   /\ Expand(doc.bytes) \in CsvSamples
                          => sc.separator = "," /\ sc.rows_count = 2 /\ sc.columns_count = 3
                   /\ sc.rows_count = LineCount(doc.bytes)
                   /\ sc.columns_count =
                          IF LineCount(doc.bytes) = 0 \/ first = << >> THEN 0
                          ELSE 1 + Count(sc.separator, first)

\* C20 witness: semicolon and pipe occur equally often in the sample, more
\* often than comma, and the file was validated with the semicolon.
C20_Witness ==
    \E r \in Records :
        /\ DocExt = ".csv" /\ doc.io = "ok"
        /\ r.specific_checks.separator = ";"
        /\ Count("|", Take(doc.bytes, SampleSize)) = Count(";", Take(doc.bytes, SampleSize))
        /\ r.specific_checks.rows_count >= 1

\* ------------------------------------------------- the spreadsheet counter
SpreadsheetRecords ==
    { i \in DOMAIN results : Lower(Suffix(results[i].file_path)) \in ExcelExts }

\* C24 (as stated): summary['excel_files'] equals the number of records in
\* results whose path has the extension .xlsx or .xls in any letter case.
C24_Original_ExcelFilesCountsRecords ==
    summary.excel_files = Cardinality(SpreadsheetRecords)

\* ---------------------------------------------- the enhancement check flag
\* C26: excel_enhancement_checked is set by the first execution of the
\* capability check, also when that execution raises, and is never reset;
\* the probe and the install attempt run only in the step that sets it, so
\* they are never retried; summary['enhanced_excel_analysis'] only changes
\* from false to true, and only in that same step.
C26_FlagSetBeforeProbeAndKept ==
    [][ /\ excel_enhancement_checked => excel_enhancement_checked'
        /\ probe_runs' # probe_runs
              => ~excel_enhancement_checked /\ excel_enhancement_checked'
        /\ summary'.enhanced_excel_analysis # summary.enhanced_excel_analysis
              => /\ ~summary.enhanced_excel_analysis
                 /\ summary'.enhanced_excel_analysis
                 /\ probe_runs' # probe_runs ]_vars

\* C26 witness: the first attempt raised, and a later spreadsheet file was
\* checked without a second attempt, with the enhancement still off.
C26_Witness ==
    \E i, j \in DOMAIN calls :
        /\ i < j
        /\ calls[i].ran /\ calls[i].raised
        /\ Lower(Suffix(calls[j].file_path)) \in ExcelExts
        /\ fs[calls[j].file_path].probe = "readable"
        /\ ~calls[j].ran /\ ~calls[j].raised
        /\ excel_enhancement_checked
        /\ ~summary.enhanced_excel_analysis

\* ------------------------------------------------------ the encoding loop
\* positions in utf-8, latin1, cp1252, iso-8859-1 of the candidates that
\* decode doc
DecodingCandidates == { i \in DOMAIN Encodings : Decodes(Encodings[i], doc) }

\* C25: for a .csv or .txt file that can be opened and read, the reported
\* encoding is the earliest of utf-8, latin1, cp1252, iso-8859-1 that decodes
\* the content, with format_valid true and no 'error'; format_valid is false
\* without an 'error' exactly when none of the four decodes it.
C25_FirstDecodingEncodingWins ==
    \A r \in Records :
        DocExt \in { ".csv", ".txt" } /\ doc.io = "ok"
            => LET sc == r.specific_checks
               IN  /\ \A i \in DecodingCandidates :
                          (\A j \in DecodingCandidates : i <= j)
                              => /\ sc.encoding = Encodings[i]
                                 /\ sc.format_valid
                                 /\ ~Has(sc, "error")
                   /\ (~sc.format_valid /\ ~Has(sc, "error")) <=> DecodingCandidates = { }

\* C25 witness: a text file that is not UTF-8 and holds a byte cp1252 leaves
\* undefined was validated as latin1, the second candidate, although
\* iso-8859-1 decodes it as well.
C25_Witness ==
    \E r \in Records :
        /\ DocExt = ".txt" /\ doc.io = "ok"
        /\ DecodingCandidates = { 2, 4 }
        /\ r.specific_checks.encoding = "latin1"
        /\ r.specific_checks.lines_count >= 2

ItemsFor(r) ==
    { e \in { report.corrupted[i] : i \in DOMAIN report.corrupted }
            \cup (IF Has(report, "inaccessible")
                  THEN { report.inaccessible[i] : i \in DOMAIN report.inaccessible }
                  ELSE { }) :
        e.file_path = r.file_path }

\* the messages an entry shows
Shown(e) == { e[k] : k \in DOMAIN e \cap { "Erro", "Detalhes", "Aviso" } }

\* the error and the warnings recorded for r, of the accessibility check, of
\* the status decision and of the validator
Recorded(r) ==
    (IF Truthy(r, "error") THEN { r.error } ELSE { })
        \cup (IF Truthy(r, "warning") THEN { r.warning } ELSE { })
        \cup (IF HardError(r) THEN { r.specific_checks.error } ELSE { })
        \cup (IF Has(r, "specific_checks") /\ Has(r.specific_checks, "warning")
              THEN { r.specific_checks.warning } ELSE { })

\* C23 (as stated): the text summary itemizes every record that is not
\* INTACT (CORRUPTED, INACCESSIBLE or UNKNOWN) and shows with it the error or
\* warning recorded for it, the 'error' of the validator included.
C23_Original_SummaryItemizesNonIntact ==
    report.written
        => \A r \in Records :
               r.integrity_status # "INTACT"
                   => \E e \in ItemsFor(r) : Recorded(r) \subseteq Shown(e)

\* ------------------------------------------------------------ idempotence
\* the calls and the records of every run so far, the running one last
Runs == Append(previous, [ calls |-> calls, results |-> results ])

\* the checks that left a record, as the pair of the call and its record:
\* the k-th call that did not raise appended the k-th record
Checks ==
    UNION { { [ call   |-> Runs[n].calls[i],
                record |-> Runs[n].results[
                               Cardinality({ k \in 1..i : ~Runs[n].calls[k].raised }) ] ] :
                  i \in { k \in DOMAIN Runs[n].calls : ~Runs[n].calls[k].raised } } :
            n \in DOMAIN Runs }

\* C22 (as stated): every check of a path of the unchanged tree, in the same
\* run or in another, gives the path the same status.
C22_Original_StatusIndependentOfHistory ==
    \A a, b \in Checks :
        a.record.file_path = b.record.file_path
            => a.record.integrity_status = b.record.integrity_status

\* C22 (amended): two checks of a path of the unchanged tree, in the same run
\* or in another, give it the same status when the spreadsheet capability
\* was equally available to the validator in both (the enhancement equally
\* on or off after the two calls, for a spreadsheet file); nothing else of
\* the scan history (the files checked before, the capability check having
\* run or not) changes the status.
C22_StatusFollowsFileAndCapability ==
    \A a, b \in Checks :
        ( /\ a.record.file_path = b.record.file_path
          /\ (Lower(Suffix(a.record.file_path)) \in ExcelExts
                  => a.call.enabled = b.call.enabled) )
            => a.record.integrity_status = b.record.integrity_status

\* C22 witness: the first run installed the capability while checking a
\* spreadsheet file that is not a workbook; the second run, which found it
\* installed, is complete and gave the file the same status.
C22_Witness ==
    /\ pc = "done"
    /\ Len(previous) = 1
    /\ \E a, b \in Checks :
           /\ a.record.file_path = b.record.file_path
           /\ a.call \in { previous[1].calls[i] : i \in DOMAIN previous[1].calls }
           /\ b.call \in { calls[j] : j \in DOMAIN calls }
           /\ a.call.ran /\ a.call.enabled
           /\ b.call.enabled
           /\ fs[a.record.file_path].content = "bad"
           /\ a.record.integrity_status = "CORRUPTED"
           /\ b.record.integrity_status = "CORRUPTED"

====
